---- MODULE Spec2Model ----
(***************************************************************************)
(* pioneer: cross-reference graph (CallGraph / Graph), its persistence     *)
(* (Graph::save, GraphSaxHandler, Graph::load), the population loop of     *)
(* Indexer::index and the path enumeration of QueryEngine.                 *)
(*                                                                         *)
(* Strings are sequences of characters (one-character strings); a token    *)
(* such as "U+0001" stands for the single byte 0x01.  Maps of the program  *)
(* (std::unordered_map) are functions with a finite domain; the empty map  *)
(* is << >>.                                                               *)
(***************************************************************************)
EXTENDS Integers, Sequences, FiniteSets, TLC

\* ------------------------------------------------------------------ bounds
\* Number of mutating Graph API calls (or indexer records) in one build.
MaxOps == 2
\* Number of call edges of the graph a query runs on.
MaxQueryEdges == 3

\* ------------------------------------------------------------- map helpers
EmptyMap == << >>

Put(m, k, v) == [x \in (DOMAIN m) \cup {k} |-> IF x = k THEN v ELSE m[x]]

Range(m) == {m[x] : x \in DOMAIN m}

\* m[k].insert(v) on a map of sets; operator[] creates the key
InsertInto(m, k, v) == Put(m, k, (IF k \in DOMAIN m THEN m[k] ELSE {}) \cup {v})

\* a set of integers in ascending order
RECURSIVE SetToSeq(_)
SetToSeq(S) ==
    IF S = {} THEN << >>
    ELSE LET x == CHOOSE y \in S : \A z \in S : y <= z
         IN <<x>> \o SetToSeq(S \ {x})

\* the keys of a map, as a sequence in some fixed order
RECURSIVE KeysToSeq(_)
KeysToSeq(S) ==
    IF S = {} THEN << >>
    ELSE LET x == CHOOSE y \in S : TRUE
         IN <<x>> \o KeysToSeq(S \ {x})

\* ------------------------------------------------------------- constants
INVALID_UID == 0

\* enum class SymbolType { Function, Variable, End }
SymbolTypeFunction == "Function"
SymbolTypeVariable == "Variable"
SymbolTypeEnd == "End"

END_NAME == <<"E", "N", "D">>
START_NAME == <<"S", "T", "A", "R", "T">>

\* ------------------------------------------------------------- StringPool
EmptyPool == [strings_ |-> << >>, index_ |-> EmptyMap]

\* StringPool::intern: the index of str, appended when absent (0-based)
StringPool_intern(pool, str) ==
    IF str \in DOMAIN pool.index_
    THEN [pool |-> pool, idx |-> pool.index_[str]]
    ELSE LET idx == Len(pool.strings_)
         IN [pool |-> [strings_ |-> Append(pool.strings_, str),
                       index_ |-> Put(pool.index_, str, idx)],
             idx |-> idx]

\* StringPool::get: the empty string for an index out of range
StringPool_get(pool, idx) ==
    IF idx >= 0 /\ idx < Len(pool.strings_) THEN pool.strings_[idx + 1] ELSE << >>

SIZE_MAX == 0 - 1

\* a StringPool as its members are declared: strings_ with the capacity of
\* the vector, and index_ as its entries (the key a view, valid while the
\* characters it points at are those of an element of strings_)
NewStringPool == [strings_ |-> << >>, capacity |-> 0, index_ |-> {}]

\* no call has been made on the StringPool
NoPool == [pool |-> NewStringPool, op |-> "none", str |-> << >>, idx |-> SIZE_MAX]

\* -------------------------------------------------------------- CallGraph
EmptyCallGraph ==
    [symbol_pool |-> EmptyPool,
     symbol_to_uid |-> EmptyMap,
     uid_to_string_idx |-> EmptyMap,
     symbol_types |-> EmptyMap,
     filepath_pool |-> EmptyPool,
     filepath_to_uid |-> EmptyMap,
     file_uid_to_path_idx |-> EmptyMap,
     file_to_symbols |-> EmptyMap,
     symbol_to_file |-> EmptyMap,
     next_file_uid |-> 1,
     call_map |-> EmptyMap,
     reverse_call_map |-> EmptyMap,
     data_flow_map |-> EmptyMap,
     reverse_data_flow_map |-> EmptyMap,
     next_uid |-> 1,
     end_uid |-> INVALID_UID]

\* a get_or_create_uid without the lookup: every call takes a fresh UID (the
\* fault C15 has to exclude)
get_or_create_uid_fresh(g, symbol_name, type) ==
    LET uid == g.next_uid
        r == StringPool_intern(g.symbol_pool, symbol_name)
    IN [g |-> [g EXCEPT !.next_uid = uid + 1,
                        !.symbol_pool = r.pool,
                        !.symbol_to_uid = Put(@, symbol_name, uid),
                        !.uid_to_string_idx = Put(@, uid, r.idx),
                        !.symbol_types = Put(@, uid, type)],
        uid |-> uid]

\* CallGraph::get_or_create_uid: [g |-> the graph afterwards, uid |-> the UID]
get_or_create_uid(g, symbol_name, type) ==
    IF symbol_name \in DOMAIN g.symbol_to_uid
    THEN [g |-> g, uid |-> g.symbol_to_uid[symbol_name]]
    ELSE LET uid == g.next_uid
             r == StringPool_intern(g.symbol_pool, symbol_name)
         IN [g |-> [g EXCEPT !.next_uid = uid + 1,
                             !.symbol_pool = r.pool,
                             !.symbol_to_uid = Put(@, symbol_name, uid),
                             !.uid_to_string_idx = Put(@, uid, r.idx),
                             !.symbol_types = Put(@, uid, type)],
             uid |-> uid]

\* CallGraph::get_uid
get_uid(g, symbol_name) ==
    IF symbol_name \in DOMAIN g.symbol_to_uid THEN g.symbol_to_uid[symbol_name]
    ELSE INVALID_UID

\* CallGraph::get_symbol
get_symbol(g, uid) ==
    IF uid = g.end_uid THEN END_NAME
    ELSE IF uid \in DOMAIN g.uid_to_string_idx
         THEN StringPool_get(g.symbol_pool, g.uid_to_string_idx[uid])
         ELSE << >>

\* CallGraph::get_type
get_type(g, uid) ==
    IF uid \in DOMAIN g.symbol_types THEN g.symbol_types[uid] ELSE SymbolTypeFunction

\* CallGraph::is_variable
is_variable(g, uid) == get_type(g, uid) = SymbolTypeVariable

\* add_call as it would be without its second statement: the reverse map
\* is not updated (the fault C1 has to exclude)
CallGraph_add_call_forward_only(g, caller, callee) ==
    [g EXCEPT !.call_map = InsertInto(@, caller, callee)]

\* CallGraph::add_call
CallGraph_add_call(g, caller, callee) ==
    [g EXCEPT !.call_map = InsertInto(@, caller, callee),
              !.reverse_call_map = InsertInto(@, callee, caller)]

\* CallGraph::add_data_flow(variable, source): first argument is the key of
\* data_flow_map, second the key of reverse_data_flow_map
CallGraph_add_data_flow(g, variable, source) ==
    [g EXCEPT !.data_flow_map = InsertInto(@, variable, source),
              !.reverse_data_flow_map = InsertInto(@, source, variable)]

\* the loop "for (SymbolUID uid : all_symbols)" of CallGraph::finalize
RECURSIVE connect_leaves(_, _)
connect_leaves(g, uids) ==
    IF uids = {} THEN g
    ELSE LET uid == CHOOSE u \in uids : TRUE
             g1 == IF uid \notin DOMAIN g.call_map \/ g.call_map[uid] = {}
                   THEN CallGraph_add_call(g, uid, g.end_uid)
                   ELSE g
         IN connect_leaves(g1, uids \ {uid})

\* a finalize that takes next_uid for END without advancing it (the fault C17
\* has to exclude)
CallGraph_finalize_no_increment(g) ==
    LET end_uid == g.next_uid
        r == StringPool_intern(g.symbol_pool, END_NAME)
        g1 == [g EXCEPT !.end_uid = end_uid,
                        !.symbol_pool = r.pool,
                        !.symbol_to_uid = Put(@, END_NAME, end_uid),
                        !.uid_to_string_idx = Put(@, end_uid, r.idx),
                        !.symbol_types = Put(@, end_uid, SymbolTypeEnd)]
        all_symbols == {u \in Range(g1.symbol_to_uid) :
                            u # end_uid /\ get_type(g1, u) = SymbolTypeFunction}
    IN connect_leaves(g1, all_symbols)

\* CallGraph::finalize
CallGraph_finalize(g) ==
    LET end_uid == g.next_uid
        r == StringPool_intern(g.symbol_pool, END_NAME)
        g1 == [g EXCEPT !.end_uid = end_uid,
                        !.next_uid = end_uid + 1,
                        !.symbol_pool = r.pool,
                        !.symbol_to_uid = Put(@, END_NAME, end_uid),
                        !.uid_to_string_idx = Put(@, end_uid, r.idx),
                        !.symbol_types = Put(@, end_uid, SymbolTypeEnd)]
        all_symbols == {u \in Range(g1.symbol_to_uid) :
                            u # end_uid /\ get_type(g1, u) = SymbolTypeFunction}
    IN connect_leaves(g1, all_symbols)

\* CallGraph::num_symbols
num_symbols(g) ==
    Cardinality(DOMAIN g.symbol_to_uid) - (IF g.end_uid # INVALID_UID THEN 1 ELSE 0)

\* ------------------------------------------------------------------ Graph
\* Graph::get_or_create_file_uid: [g |-> ..., uid |-> the file UID]
get_or_create_file_uid(g, filepath) ==
    IF filepath \in DOMAIN g.filepath_to_uid
    THEN [g |-> g, uid |-> g.filepath_to_uid[filepath]]
    ELSE LET file_uid == g.next_file_uid
             r == StringPool_intern(g.filepath_pool, filepath)
         IN [g |-> [g EXCEPT !.next_file_uid = file_uid + 1,
                             !.filepath_pool = r.pool,
                             !.filepath_to_uid = Put(@, filepath, file_uid),
                             !.file_uid_to_path_idx = Put(@, file_uid, r.idx)],
             uid |-> file_uid]

\* an add_symbol that records the type on the first insertion only (the
\* fault C16 has to exclude)
Graph_add_symbol_keep_type(g, qualified_name, type) ==
    LET r == get_or_create_uid(g, qualified_name, type)
    IN [g |-> r.g, uid |-> r.uid]

\* Graph::add_symbol(qualified_name, type)
Graph_add_symbol(g, qualified_name, type) ==
    LET r == get_or_create_uid(g, qualified_name, SymbolTypeFunction)
    IN [g |-> [r.g EXCEPT !.symbol_types = Put(@, r.uid, type)], uid |-> r.uid]

\* Graph::add_symbol(qualified_name, filepath, type)
Graph_add_symbol_file(g, qualified_name, filepath, type) ==
    LET r == Graph_add_symbol(g, qualified_name, type)
        f == get_or_create_file_uid(r.g, filepath)
    IN [g |-> [f.g EXCEPT !.symbol_to_file = Put(@, r.uid, f.uid),
                          !.file_to_symbols =
                              Put(@, f.uid,
                                  Append(IF f.uid \in DOMAIN @ THEN @[f.uid] ELSE << >>,
                                         r.uid))],
        uid |-> r.uid]

\* Graph::add_call(caller, callee)
Graph_add_call(g, caller, callee) ==
    LET r1 == get_or_create_uid(g, caller, SymbolTypeFunction)
        r2 == get_or_create_uid(r1.g, callee, SymbolTypeFunction)
    IN CallGraph_add_call(r2.g, r1.uid, r2.uid)

\* Graph::add_data_flow(source, dest)
Graph_add_data_flow(g, source, dest) ==
    LET r1 == get_or_create_uid(g, source, SymbolTypeFunction)
        r2 == get_or_create_uid(r1.g, dest, SymbolTypeFunction)
    IN CallGraph_add_data_flow(r2.g, r1.uid, r2.uid)

\* Graph::has_symbol
has_symbol(g, name) == name \in DOMAIN g.symbol_to_uid

\* Graph::get_symbol_file_uid
get_symbol_file_uid(g, symbol_uid) ==
    IF symbol_uid \in DOMAIN g.symbol_to_file THEN g.symbol_to_file[symbol_uid]
    ELSE INVALID_UID

\* Graph::get_file_path / CallGraph::get_file_path
get_file_path(g, file_uid) ==
    IF file_uid \in DOMAIN g.file_uid_to_path_idx
    THEN StringPool_get(g.filepath_pool, g.file_uid_to_path_idx[file_uid])
    ELSE << >>

\* Graph::get_callees
get_callees(g, caller) ==
    IF caller \in DOMAIN g.call_map THEN g.call_map[caller] ELSE {}

\* Graph::get_callers
get_callers(g, callee) ==
    IF callee \in DOMAIN g.reverse_call_map THEN g.reverse_call_map[callee] ELSE {}

\* Graph::get_data_sources
get_data_sources(g, variable) ==
    IF variable \in DOMAIN g.reverse_data_flow_map
    THEN g.reverse_data_flow_map[variable] ELSE {}

\* Graph::get_data_sinks
get_data_sinks(g, source) ==
    IF source \in DOMAIN g.data_flow_map THEN g.data_flow_map[source] ELSE {}

\* ------------------------------------------------------------ conversions
Digits == <<"0", "1", "2", "3", "4", "5", "6", "7", "8", "9">>
HexDigits == <<"0", "1", "2", "3", "4", "5", "6", "7", "8", "9",
               "a", "b", "c", "d", "e", "f">>

\* the control characters the model's strings may hold, with their codes
ControlCode ==
    [c \in {"U+0001", "\t", "\n", "\f", "\r", "U+0008"} |->
        CASE c = "U+0001" -> 1
          [] c = "U+0008" -> 8
          [] c = "\t" -> 9
          [] c = "\n" -> 10
          [] c = "\f" -> 12
          [] c = "\r" -> 13]

\* operator<<(uint64_t) / std::to_string: decimal digits
RECURSIVE to_string(_)
to_string(n) ==
    IF n < 10 THEN <<Digits[n + 1]>>
    ELSE to_string(n \div 10) \o <<Digits[(n % 10) + 1]>>

DigitValue(c) == (CHOOSE i \in 1..10 : Digits[i] = c) - 1
HexValue(c) == (CHOOSE i \in 1..16 : HexDigits[i] = c) - 1

\* the digits std::stoull / std::stoi consume: the longest prefix of digits
LeadingDigits(s) ==
    LET n == CHOOSE k \in 0..Len(s) :
                 /\ \A i \in 1..k : s[i] \in Range(Digits)
                 /\ k = Len(s) \/ s[k + 1] \notin Range(Digits)
    IN SubSeq(s, 1, n)

\* the value of a string of decimal digits
RECURSIVE DecimalValue(_)
DecimalValue(s) ==
    IF Len(s) = 0 THEN 0
    ELSE DecimalValue(SubSeq(s, 1, Len(s) - 1)) * 10 + DigitValue(s[Len(s)])

\* std::stoull / std::stoi: the value of the leading digits
stoull(s) == DecimalValue(LeadingDigits(s))

\* write_json_string: the characters written between the quotes
NeedsEscape(c) == c \in {"\"", "\\"} \/ c \in DOMAIN ControlCode

\* a writer that copies the characters unescaped (the fault C5 has to
\* exclude)
write_json_string_raw(s) == s

RECURSIVE write_json_string(_)
write_json_string(s) ==
    IF \A i \in 1..Len(s) : ~NeedsEscape(s[i]) THEN s
    ELSE LET c == s[1]
             out == CASE c = "\"" -> <<"\\", "\"">>
                      [] c = "\\" -> <<"\\", "\\">>
                      [] c = "U+0008" -> <<"\\", "b">>
                      [] c = "\f" -> <<"\\", "f">>
                      [] c = "\n" -> <<"\\", "n">>
                      [] c = "\r" -> <<"\\", "r">>
                      [] c = "\t" -> <<"\\", "t">>
                      [] OTHER ->
                          IF c \in DOMAIN ControlCode
                          THEN <<"\\", "u", "0", "0",
                                 HexDigits[((ControlCode[c] \div 16) % 16) + 1],
                                 HexDigits[(ControlCode[c] % 16) + 1]>>
                          ELSE <<c>>
         IN out \o write_json_string(Tail(s))

\* the character with a given code (the JSON parser decoding \uXXXX)
CharOfCode(n) ==
    IF \E c \in DOMAIN ControlCode : ControlCode[c] = n
    THEN CHOOSE c \in DOMAIN ControlCode : ControlCode[c] = n
    ELSE "U+????"

\* the JSON parser's decoding of the text of a string token
RECURSIVE json_unescape(_)
json_unescape(t) ==
    IF \A i \in 1..Len(t) : t[i] # "\\" THEN t
    ELSE IF t[1] # "\\" THEN <<t[1]>> \o json_unescape(Tail(t))
    ELSE IF Len(t) < 2 THEN << >>
    ELSE IF t[2] = "u" /\ Len(t) >= 6
         THEN <<CharOfCode(HexValue(t[3]) * 4096 + HexValue(t[4]) * 256
                           + HexValue(t[5]) * 16 + HexValue(t[6]))>>
              \o json_unescape(SubSeq(t, 7, Len(t)))
    ELSE LET c == CASE t[2] = "b" -> "U+0008"
                    [] t[2] = "f" -> "\f"
                    [] t[2] = "n" -> "\n"
                    [] t[2] = "r" -> "\r"
                    [] t[2] = "t" -> "\t"
                    [] OTHER -> t[2]
         IN <<c>> \o json_unescape(SubSeq(t, 3, Len(t)))

\* static_cast<int>(SymbolType) and back
SymbolTypeToInt(type) ==
    CASE type = SymbolTypeFunction -> 0
      [] type = SymbolTypeVariable -> 1
      [] OTHER -> 2

IntToSymbolType(n) ==
    CASE n = 0 -> SymbolTypeFunction
      [] n = 1 -> SymbolTypeVariable
      [] n = 2 -> SymbolTypeEnd
      [] OTHER -> "Unknown"

\* ---------------------------------------------------------------- version
INDEX_SCHEMA_MAJOR == 2
INDEX_SCHEMA_MINOR == 1
INDEX_SCHEMA_PATCH == 0
INDEX_SCHEMA_VERSION == <<"2", ".", "1", ".", "0">>
MIN_COMPAT_SCHEMA_MAJOR == 1
MIN_COMPAT_SCHEMA_MINOR == 2

\* an is_schema_compatible that accepts every version up to the reader's own
\* (the fault C19 has to exclude)
is_schema_compatible_older(major, minor, patch) == major <= INDEX_SCHEMA_MAJOR

\* is_schema_compatible(major, minor, patch)
is_schema_compatible(major, minor, patch) ==
    IF major = INDEX_SCHEMA_MAJOR THEN TRUE
    ELSE IF major > MIN_COMPAT_SCHEMA_MAJOR THEN FALSE
    ELSE major = MIN_COMPAT_SCHEMA_MAJOR /\ minor >= MIN_COMPAT_SCHEMA_MINOR

\* std::string::find(c, from): 1-based position of c at or after from, 0 if none
FindChar(s, c, from) ==
    IF \E i \in from..Len(s) : s[i] = c
    THEN CHOOSE i \in from..Len(s) : s[i] = c /\ \A j \in from..(i - 1) : s[j] # c
    ELSE 0

\* std::stoi / std::stoull succeed on a string that starts with a digit and
\* throw std::invalid_argument on one that does not
IsNumber(s) == Len(s) > 0 /\ s[1] \in Range(Digits)

\* parse_version: [ok, major, minor, patch]
parse_version(version) ==
    LET pos1 == FindChar(version, ".", 1)
        pos2 == IF pos1 = 0 THEN 0 ELSE FindChar(version, ".", pos1 + 1)
        a == SubSeq(version, 1, pos1 - 1)
        b == SubSeq(version, pos1 + 1, pos2 - 1)
        c == SubSeq(version, pos2 + 1, Len(version))
    IN IF pos1 = 0 \/ pos2 = 0 \/ ~IsNumber(a) \/ ~IsNumber(b) \/ ~IsNumber(c)
       THEN [ok |-> FALSE, major |-> 0, minor |-> 0, patch |-> 0]
       ELSE [ok |-> TRUE, major |-> stoull(a), minor |-> stoull(b), patch |-> stoull(c)]

npos == 0 - 1

\* std::string::find(pattern, pos): the first position (from 0) not before
\* pos at which pattern occurs in s, npos when there is none
RECURSIVE string_find(_, _, _)
string_find(s, pattern, pos) ==
    IF pos + Len(pattern) > Len(s) THEN npos
    ELSE IF SubSeq(s, pos + 1, pos + Len(pattern)) = pattern THEN pos
    ELSE string_find(s, pattern, pos + 1)

\* ------------------------------------------------------------- index file
\* The file is a sequence of JSON tokens; text is what is written for a
\* string, key or number.
TokOpenObj == [t |-> "{", text |-> << >>]
TokCloseObj == [t |-> "}", text |-> << >>]
TokOpenArr == [t |-> "[", text |-> << >>]
TokCloseArr == [t |-> "]", text |-> << >>]
TokKey(text) == [t |-> "key", text |-> text]
TokStr(text) == [t |-> "str", text |-> text]
TokNum(n) == [t |-> "num", text |-> to_string(n)]

Key ==
    [metadata |-> <<"m", "e", "t", "a", "d", "a", "t", "a">>,
     version |-> <<"v", "e", "r", "s", "i", "o", "n">>,
     num_symbols |-> <<"n", "u", "m", "_", "s", "y", "m", "b", "o", "l", "s">>,
     num_functions |-> <<"n", "u", "m", "_", "f", "u", "n", "c", "t", "i", "o", "n", "s">>,
     num_variables |-> <<"n", "u", "m", "_", "v", "a", "r", "i", "a", "b", "l", "e", "s">>,
     end_uid |-> <<"e", "n", "d", "_", "u", "i", "d">>,
     num_files |-> <<"n", "u", "m", "_", "f", "i", "l", "e", "s">>,
     UIDs |-> <<"U", "I", "D", "s">>,
     symbol_types |-> <<"s", "y", "m", "b", "o", "l", "_", "t", "y", "p", "e", "s">>,
     call_mapping |-> <<"c", "a", "l", "l", "_", "m", "a", "p", "p", "i", "n", "g">>,
     data_flow |-> <<"d", "a", "t", "a", "_", "f", "l", "o", "w">>,
     file_paths |-> <<"f", "i", "l", "e", "_", "p", "a", "t", "h", "s">>,
     file_symbols |-> <<"f", "i", "l", "e", "_", "s", "y", "m", "b", "o", "l", "s">>,
     symbol_files |-> <<"s", "y", "m", "b", "o", "l", "_", "f", "i", "l", "e", "s">>,
     path_trie |-> <<"p", "a", "t", "h", "_", "t", "r", "i", "e">>,
     subdirs |-> <<"s", "u", "b", "d", "i", "r", "s">>,
     files |-> <<"f", "i", "l", "e", "s">>]

\* CallGraph::num_functions / num_variables
num_of_type(g, type) ==
    Cardinality({u \in DOMAIN g.symbol_types : g.symbol_types[u] = type})

\* concatenation of f(k) over the keys of a sequence ks
RECURSIVE FlatMap(_, _)
FlatMap(f(_), ks) ==
    IF Len(ks) = 0 THEN << >> ELSE f(ks[1]) \o FlatMap(f, Tail(ks))

NumTokens(ns) == [i \in 1..Len(ns) |-> TokNum(ns[i])]

\* "uid":[n,...] for every key of a map of sets (call_mapping, data_flow)
SaveSetMap(m) ==
    LET entry(k) == <<TokKey(to_string(k)), TokOpenArr>>
                    \o NumTokens(SetToSeq(m[k])) \o <<TokCloseArr>>
    IN FlatMap(entry, KeysToSeq(DOMAIN m))

\* add_to_path_trie: the directory components of a path and whether its last
\* component (the file name) is stored; components split at '/' and '\'
RECURSIVE SplitPath(_, _, _)
SplitPath(rest, cur, dirs) ==
    IF Len(rest) = 0 THEN [dirs |-> dirs, stored |-> Len(cur) > 0]
    ELSE IF rest[1] \in {"/", "\\"}
         THEN SplitPath(Tail(rest), << >>,
                        IF Len(cur) > 0 /\ cur # <<".">> THEN Append(dirs, cur) ELSE dirs)
         ELSE SplitPath(Tail(rest), Append(cur, rest[1]), dirs)

\* path_node_to_json(...).dump() of the trie holding entries [dirs, uid]:
\* nlohmann objects are ordered by key, so "files" precedes "subdirs"
RECURSIVE TrieTokens(_)
TrieTokens(entries) ==
    LET here == {e \in entries : Len(e.dirs) = 0}
        below == entries \ here
        names == {e.dirs[1] : e \in below}
        sub(n) == <<TokKey(write_json_string(n))>>
                  \o TrieTokens({[dirs |-> Tail(e.dirs), uid |-> e.uid] :
                                    e \in {x \in below : x.dirs[1] = n}})
    IN <<TokOpenObj>>
       \o (IF here = {} THEN << >>
           ELSE <<TokKey(Key.files), TokOpenArr>>
                \o NumTokens(SetToSeq({e.uid : e \in here})) \o <<TokCloseArr>>)
       \o (IF below = {} THEN << >>
           ELSE <<TokKey(Key.subdirs), TokOpenObj>>
                \o FlatMap(sub, KeysToSeq(names)) \o <<TokCloseObj>>)
       \o <<TokCloseObj>>

\* build_path_trie over file_uid_to_path
PathTrieEntries(g) ==
    {[dirs |-> SplitPath(get_file_path(g, fu), << >>, << >>).dirs, uid |-> fu] :
        fu \in {x \in DOMAIN g.file_uid_to_path_idx :
                    SplitPath(get_file_path(g, x), << >>, << >>).stored}}

\* Graph::save: the tokens written to the index file
Graph_save(g) ==
    LET uids(name) == <<TokKey(write_json_string(name)), TokNum(g.symbol_to_uid[name])>>
        types(u) == <<TokKey(to_string(u)), TokNum(SymbolTypeToInt(g.symbol_types[u]))>>
        paths(fu) == <<TokKey(to_string(fu)),
                       TokStr(write_json_string(
                           StringPool_get(g.filepath_pool, g.file_uid_to_path_idx[fu])))>>
        fsyms(fu) == <<TokKey(to_string(fu)), TokOpenArr>>
                     \o NumTokens(g.file_to_symbols[fu]) \o <<TokCloseArr>>
        sfile(u) == <<TokKey(to_string(u)), TokNum(g.symbol_to_file[u])>>
    IN <<TokOpenObj, TokKey(Key.metadata), TokOpenObj,
         TokKey(Key.version), TokStr(INDEX_SCHEMA_VERSION),
         TokKey(Key.num_symbols), TokNum(num_symbols(g)),
         TokKey(Key.num_functions), TokNum(num_of_type(g, SymbolTypeFunction)),
         TokKey(Key.num_variables), TokNum(num_of_type(g, SymbolTypeVariable)),
         TokKey(Key.end_uid), TokNum(g.end_uid),
         TokKey(Key.num_files), TokNum(Cardinality(DOMAIN g.file_uid_to_path_idx)),
         TokKey(Key.UIDs), TokOpenObj>>
       \o FlatMap(uids, KeysToSeq(DOMAIN g.symbol_to_uid))
       \o <<TokCloseObj, TokCloseObj, TokKey(Key.symbol_types), TokOpenObj>>
       \o FlatMap(types, KeysToSeq(DOMAIN g.symbol_types))
       \o <<TokCloseObj, TokKey(Key.call_mapping), TokOpenObj>>
       \o SaveSetMap(g.call_map)
       \o <<TokCloseObj, TokKey(Key.data_flow), TokOpenObj>>
       \o SaveSetMap(g.data_flow_map)
       \o <<TokCloseObj, TokKey(Key.file_paths), TokOpenObj>>
       \o FlatMap(paths, KeysToSeq(DOMAIN g.file_uid_to_path_idx))
       \o <<TokCloseObj, TokKey(Key.file_symbols), TokOpenObj>>
       \o FlatMap(fsyms, KeysToSeq(DOMAIN g.file_to_symbols))
       \o <<TokCloseObj, TokKey(Key.symbol_files), TokOpenObj>>
       \o FlatMap(sfile, KeysToSeq(DOMAIN g.symbol_to_file))
       \o <<TokCloseObj, TokKey(Key.path_trie)>>
       \o TrieTokens(PathTrieEntries(g))
       \o <<TokCloseObj>>

\* -------------------------------------------------------- GraphSaxHandler
LoadModes == {"Full", "WithPaths", "SymbolsOnly"}

\* GraphSaxHandler(g, mode): a fresh handler on an empty graph
NewHandler(mode) ==
    [class |-> "GraphSaxHandler",
     graph |-> EmptyCallGraph,
     mode |-> mode,
     current_section |-> "None",
     current_key |-> << >>,
     current_array |-> << >>,
     depth |-> 0,
     in_array |-> FALSE,
     skip_depth |-> 0,
     thrown |-> FALSE]

\* an exception leaves the handler (std::runtime_error, std::invalid_argument)
Throw(h) == [h EXCEPT !.thrown = TRUE]

\* a should_skip_section that treats every mode as Full (the fault C18 has to
\* exclude)
should_skip_section_full(mode, sec) == sec = "PathTrie"

\* GraphSaxHandler::should_skip_section
should_skip_section(mode, sec) ==
    CASE mode = "SymbolsOnly" ->
            sec \in {"CallMapping", "DataFlow", "FilePaths", "FileSymbols",
                     "SymbolFiles", "PathTrie"}
      [] mode = "WithPaths" -> sec \in {"CallMapping", "DataFlow", "PathTrie"}
      [] OTHER -> sec = "PathTrie"

\* GraphSaxHandler::handle_number (number_integer / number_unsigned)
handle_number(h, val) ==
    IF h.skip_depth > 0 THEN h
    ELSE IF h.in_array THEN [h EXCEPT !.current_array = Append(@, val)]
    ELSE CASE h.current_section = "UIDs" ->
                LET r == StringPool_intern(h.graph.symbol_pool, h.current_key)
                IN [h EXCEPT !.graph =
                        [@ EXCEPT !.symbol_pool = r.pool,
                                  !.symbol_to_uid = Put(@, h.current_key, val),
                                  !.uid_to_string_idx = Put(@, val, r.idx),
                                  !.next_uid = IF val >= @ THEN val + 1 ELSE @]]
           [] h.current_section = "SymbolTypes" ->
                IF ~IsNumber(h.current_key) THEN Throw(h)
                ELSE [h EXCEPT !.graph.symbol_types =
                         Put(@, stoull(h.current_key), IntToSymbolType(val))]
           [] h.current_section = "SymbolFiles" ->
                IF ~IsNumber(h.current_key) THEN Throw(h)
                ELSE [h EXCEPT !.graph.symbol_to_file =
                         Put(@, stoull(h.current_key), val)]
           [] h.current_section = "Metadata" ->
                IF h.current_key = Key.end_uid
                THEN [h EXCEPT !.graph.end_uid = val]
                ELSE h
           [] OTHER -> h

\* GraphSaxHandler::string
sax_string(h, val) ==
    IF h.skip_depth > 0 THEN h
    ELSE CASE h.current_section = "FilePaths" ->
                IF ~IsNumber(h.current_key) THEN Throw(h)
                ELSE LET file_uid == stoull(h.current_key)
                         r == StringPool_intern(h.graph.filepath_pool, val)
                     IN [h EXCEPT !.graph =
                            [@ EXCEPT !.filepath_pool = r.pool,
                                      !.file_uid_to_path_idx = Put(@, file_uid, r.idx),
                                      !.filepath_to_uid = Put(@, val, file_uid),
                                      !.next_file_uid =
                                          IF file_uid >= @ THEN file_uid + 1 ELSE @]]
           [] h.current_section = "Metadata" ->
                IF h.current_key = Key.version
                THEN LET v == parse_version(val)
                     IN IF v.ok /\ ~is_schema_compatible(v.major, v.minor, v.patch)
                        THEN Throw(h) ELSE h
                ELSE h
           [] OTHER -> h

\* GraphSaxHandler::start_object
start_object(h) ==
    LET h1 == [h EXCEPT !.depth = @ + 1]
    IN IF h.skip_depth > 0 THEN [h1 EXCEPT !.skip_depth = @ + 1]
       ELSE IF should_skip_section(h.mode, h.current_section)
            THEN [h1 EXCEPT !.skip_depth = 1]
            ELSE h1

\* an end_object that leaves skip_depth as it is (the fault C35 has to exclude)
end_object_keep_skip(h) ==
    LET h1 == [h EXCEPT !.depth = @ - 1]
    IN IF h.skip_depth > 0 THEN h1
       ELSE IF h1.depth = 1 THEN [h1 EXCEPT !.current_section = "None"]
            ELSE h1

\* GraphSaxHandler::end_object
end_object(h) ==
    LET h1 == [h EXCEPT !.depth = @ - 1]
    IN IF h.skip_depth > 0 THEN [h1 EXCEPT !.skip_depth = @ - 1]
       ELSE IF h1.depth = 1 THEN [h1 EXCEPT !.current_section = "None"]
            ELSE h1

\* GraphSaxHandler::start_array
start_array(h) ==
    IF h.skip_depth > 0 THEN h
    ELSE [h EXCEPT !.in_array = TRUE, !.current_array = << >>]

\* the loops of end_array over current_array
RECURSIVE InsertEdges(_, _, _, _, _)
InsertEdges(g, fwd, rev, from, tos) ==
    IF Len(tos) = 0 THEN g
    ELSE InsertEdges([g EXCEPT ![fwd] = InsertInto(@, from, tos[1]),
                               ![rev] = InsertInto(@, tos[1], from)],
                     fwd, rev, from, Tail(tos))

\* GraphSaxHandler::end_array
end_array(h) ==
    IF h.skip_depth > 0 THEN h
    ELSE LET h1 == [h EXCEPT !.in_array = FALSE, !.current_array = << >>]
             sec == h.current_section
         IN IF sec \in {"CallMapping", "DataFlow", "FileSymbols"}
               /\ ~IsNumber(h.current_key)
            THEN Throw(h1)
            ELSE CASE sec = "CallMapping" ->
                        [h1 EXCEPT !.graph =
                            InsertEdges(@, "call_map", "reverse_call_map",
                                        stoull(h.current_key), h.current_array)]
                   [] sec = "DataFlow" ->
                        [h1 EXCEPT !.graph =
                            InsertEdges(@, "data_flow_map", "reverse_data_flow_map",
                                        stoull(h.current_key), h.current_array)]
                   [] sec = "FileSymbols" ->
                        [h1 EXCEPT !.graph.file_to_symbols =
                            Put(@, stoull(h.current_key), h.current_array)]
                   [] OTHER -> h1

\* the top-level keys that name a section
SectionOfKey ==
    [k \in {Key.metadata, Key.symbol_types, Key.call_mapping, Key.data_flow, Key.file_paths,
            Key.file_symbols, Key.symbol_files, Key.path_trie} |->
        CASE k = Key.metadata -> "Metadata"
          [] k = Key.symbol_types -> "SymbolTypes"
          [] k = Key.call_mapping -> "CallMapping"
          [] k = Key.data_flow -> "DataFlow"
          [] k = Key.file_paths -> "FilePaths"
          [] k = Key.file_symbols -> "FileSymbols"
          [] k = Key.symbol_files -> "SymbolFiles"
          [] OTHER -> "PathTrie"]

\* GraphSaxHandler::key
sax_key(h, key) ==
    IF h.skip_depth > 0 THEN h
    ELSE LET h1 == [h EXCEPT !.current_key = key]
         IN IF h.depth = 1
            THEN IF key \in DOMAIN SectionOfKey
                 THEN [h1 EXCEPT !.current_section = SectionOfKey[key]]
                 ELSE h1
            ELSE IF h.depth = 2 /\ h.current_section = "Metadata" /\ key = Key.UIDs
                 THEN [h1 EXCEPT !.current_section = "UIDs"]
                 ELSE h1

\* StreamingSearchHandler: one callback, with the value it returns
NewStreamingSearchHandler(patterns) ==
    [class |-> "StreamingSearchHandler", patterns |-> patterns, matches |-> << >>,
     depth |-> 0, skip_depth |-> 0, in_uids |-> FALSE, returned |-> TRUE]

StreamingSearchHandler(h, tok) ==
    CASE tok.t = "{" ->
            [h EXCEPT !.depth = @ + 1,
                      !.skip_depth = IF @ > 0 THEN @ + 1 ELSE @]
      [] tok.t = "}" ->
            LET h1 == [h EXCEPT !.depth = @ - 1,
                                !.skip_depth = IF @ > 0 THEN @ - 1 ELSE @]
            IN IF h1.depth = 2 /\ h1.in_uids
               THEN [h1 EXCEPT !.in_uids = FALSE, !.returned = FALSE]
               ELSE h1
      [] tok.t = "[" -> [h EXCEPT !.skip_depth = IF @ = 0 THEN 1 ELSE @]
      [] tok.t = "]" -> [h EXCEPT !.skip_depth = IF @ > 0 THEN @ - 1 ELSE @]
      [] tok.t = "key" ->
            LET key == json_unescape(tok.text)
            IN IF h.skip_depth > 0 THEN h
               ELSE IF h.depth = 2 /\ key = Key.UIDs THEN [h EXCEPT !.in_uids = TRUE]
               ELSE IF h.in_uids /\ h.depth = 3
                    THEN IF \E i \in 1..Len(h.patterns) :
                                string_find(key, h.patterns[i], 0) # npos
                         THEN [h EXCEPT !.matches = Append(@, key)]
                         ELSE h
               ELSE IF h.depth = 1 /\ key # Key.metadata
                    THEN [h EXCEPT !.skip_depth = 1]
               ELSE h
      [] OTHER -> h

\* StreamingFilePathHandler: one callback, with the value it returns
NewStreamingFilePathHandler ==
    [class |-> "StreamingFilePathHandler", paths |-> << >>, current_key |-> << >>,
     depth |-> 0, skip_depth |-> 0, in_file_paths |-> FALSE, returned |-> TRUE]

StreamingFilePathHandler(h, tok) ==
    CASE tok.t = "{" ->
            [h EXCEPT !.depth = @ + 1,
                      !.skip_depth = IF @ > 0 THEN @ + 1 ELSE @]
      [] tok.t = "}" ->
            LET h1 == [h EXCEPT !.depth = @ - 1,
                                !.skip_depth = IF @ > 0 THEN @ - 1 ELSE @]
            IN IF h1.depth = 1 /\ h1.in_file_paths
               THEN [h1 EXCEPT !.in_file_paths = FALSE, !.returned = FALSE]
               ELSE h1
      [] tok.t = "[" -> [h EXCEPT !.skip_depth = IF @ = 0 THEN 1 ELSE @]
      [] tok.t = "]" -> [h EXCEPT !.skip_depth = IF @ > 0 THEN @ - 1 ELSE @]
      [] tok.t = "key" ->
            LET key == json_unescape(tok.text)
            IN IF h.skip_depth > 0 THEN h
               ELSE IF h.depth = 1
                    THEN IF key = Key.file_paths
                         THEN [h EXCEPT !.current_key = key, !.in_file_paths = TRUE]
                         ELSE [h EXCEPT !.current_key = key, !.skip_depth = 1]
               ELSE [h EXCEPT !.current_key = key]
      [] tok.t = "str" ->
            IF h.in_file_paths /\ h.skip_depth = 0
            THEN [h EXCEPT !.paths = Append(@, json_unescape(tok.text))]
            ELSE h
      [] OTHER -> h

\* GraphSaxHandler's callbacks
GraphSaxHandler(h, tok) ==
    CASE tok.t = "{" -> start_object(h)
      [] tok.t = "}" -> end_object(h)
      [] tok.t = "[" -> start_array(h)
      [] tok.t = "]" -> end_array(h)
      [] tok.t = "key" -> sax_key(h, json_unescape(tok.text))
      [] tok.t = "str" -> sax_string(h, json_unescape(tok.text))
      [] OTHER -> handle_number(h, stoull(tok.text))

\* json::sax_parse delivering one token of the file to the handler
sax_event(h, tok) ==
    IF h.class = "GraphSaxHandler" THEN GraphSaxHandler(h, tok)
    ELSE IF h.class = "StreamingSearchHandler" THEN StreamingSearchHandler(h, tok)
    ELSE StreamingFilePathHandler(h, tok)

\* handler->parse_error(...): GraphSaxHandler throws, the streaming handlers
\* return false
parse_error(h) ==
    IF h.class = "GraphSaxHandler" THEN Throw(h) ELSE [h EXCEPT !.returned = FALSE]

\* the callback returned false, or left by an exception
Refused(h) == IF h.class = "GraphSaxHandler" THEN h.thrown ELSE ~h.returned

ValueStart == {"{", "[", "str", "num"}

\* the JSON grammar on tokens: a token of type t may come at position i when
\* the containers of open are open and after_key tells that a key waits for
\* its value; after the document's value nothing may come
Expected(open, after_key, i, t) ==
    IF open = << >> THEN i = 1 /\ t \in ValueStart
    ELSE IF after_key THEN t \in ValueStart
    ELSE IF open[Len(open)] = "{" THEN t \in {"key", "}"}
    ELSE t \in ValueStart \cup {"]"}

\* the open containers after a token of type t
Advance(open, t) ==
    IF t \in {"{", "["} THEN Append(open, t)
    ELSE IF t \in {"}", "]"} THEN SubSeq(open, 1, Len(open) - 1)
    ELSE open

\* the parser's reading of the file: how many tokens the grammar accepts, and
\* whether it then rejects the input (a token that may not come there, or
\* the end of the file before the document is complete)
RECURSIVE json_accept_from(_, _, _, _)
json_accept_from(toks, i, open, after_key) ==
    IF i > Len(toks) THEN [events |-> i - 1, error |-> ~(open = << >> /\ i > 1)]
    ELSE IF ~Expected(open, after_key, i, toks[i].t)
    THEN [events |-> i - 1, error |-> TRUE]
    ELSE json_accept_from(toks, i + 1, Advance(open, toks[i].t), toks[i].t = "key")

json_document(toks) == json_accept_from(toks, 1, << >>, FALSE)

\* json::sax_parse: the events in file order, until a callback returns false
\* or throws; where the grammar rejects the input the handler's parse_error
\* is called
RECURSIVE sax_parse_from(_, _, _, _)
sax_parse_from(h, toks, doc, i) ==
    IF i > doc.events
    THEN [h |-> IF doc.error THEN parse_error(h) ELSE h,
          events |-> i - 1, result |-> ~doc.error]
    ELSE LET h1 == sax_event(h, toks[i])
         IN IF Refused(h1) THEN [h |-> h1, events |-> i, result |-> FALSE]
            ELSE sax_parse_from(h1, toks, doc, i + 1)

sax_parse(h, toks, doc) == sax_parse_from(h, toks, doc, 1)

\* Graph::load(filepath, mode): [ok |-> no exception, graph |-> the graph,
\* events |-> the events the parser delivered]; doc is json_document(toks)
Graph_load(toks, doc, mode) ==
    LET p == sax_parse(NewHandler(mode), toks, doc)
    IN [ok |-> p.result /\ ~p.h.thrown, graph |-> p.h.graph,
        events |-> p.events]

\* stream_search_symbols(index_file, patterns): the vector it returns; the
\* value of sax_parse is not looked at
stream_search_symbols(toks, doc, patterns) ==
    LET p == sax_parse(NewStreamingSearchHandler(patterns), toks, doc)
    IN [matches |-> p.h.matches, events |-> p.events]

\* stream_all_symbols(index_file)
stream_all_symbols(toks, doc) == stream_search_symbols(toks, doc, << << >> >>)

\* stream_file_paths(index_file)
stream_file_paths(toks, doc) ==
    LET p == sax_parse(NewStreamingFilePathHandler, toks, doc)
    IN [paths |-> p.h.paths, events |-> p.events]

\* ------------------------------------------------------------------ inputs
N_f == <<"f">>
N_g == <<"g">>
N_h == <<"h">>
N_x == <<"x">>
N_mf == <<"m", ":", ":", "f">>
\* a method defined as c.m and a call of it written o.m
N_cm == <<"c", ".", "m">>
N_om == <<"o", ".", "m">>
\* the text of a string literal on the right-hand side of an assignment
N_lit == <<"\"", "\\", "\t", "U+0001">>
P_a == <<"d", "/", "a", ".", "c">>
P_b == <<"b", ".", "c">>

\* names and paths a client of the Graph API passes
ApiNames == {N_f, N_lit, END_NAME}
ApiPaths == {P_a, P_b}
ApiTypes == {SymbolTypeFunction, SymbolTypeVariable}

\* records the extraction of a source file yields (FunctionInfo, CallInfo,
\* VariableInfo)
FunctionRecords == [qualified_name : {N_mf, N_cm, END_NAME}, file_path : {P_a}]
CallRecords == [caller_name : {N_mf}, callee_name : {N_f, N_om, END_NAME}]
VariableRecords ==
    [qualified_name : {N_cm}, containing_func : {N_mf},
     value_source : {<< >>, N_f, N_lit}, from_function_call : BOOLEAN]

\* ------------------------------------------------------------------- state
VARIABLES
    call_graph,          \* Graph::call_graph of the graph being built
    phase,               \* "build", "final" (finalize() has run), "saved", "query"
    ops,                 \* mutating calls made so far
    driver,              \* who builds the graph: "api" (a client) or "indexer"
    short_to_qualified,  \* Indexer::index: short name -> qualified name
    stage,               \* Indexer::index: loop of the current batch
    index_file,          \* the tokens of .pioneer.json
    loaded,              \* the result of Graph::load
    query,               \* the QueryEngine's enumeration in progress
    workers,             \* Indexer::index: the parse threads of the batch and their output
    string_pool          \* a StringPool of its own and the last call made on it

vars == <<call_graph, phase, ops, driver, short_to_qualified, stage, index_file,
          loaded, query, workers, string_pool>>

NotLoaded ==
    [state |-> "none", mode |-> "Full", graph |-> EmptyCallGraph, events |-> 0]

\* An enumeration in progress.  stack, current_path and in_path are the
\* locals of the dfs_* functions; a stack frame holds its node and rest, the
\* members of the adjacency set its iterator has not yet entered (the
\* iteration order of an unordered_set is not fixed, so the next member is
\* any of them).  emitted lists the callback's invocations: the path_str it
\* was given and the UIDs it was rendered from.
NoQuery ==
    [pc |-> "idle", op |-> "none", dfs |-> "none",
     start_name |-> << >>, end_name |-> << >>,
     start |-> INVALID_UID, end |-> INVALID_UID,
     stack |-> << >>, current_path |-> << >>, in_path |-> {},
     can_reach_end |-> {}, emitted |-> << >>, stopped |-> FALSE,
     compared |-> FALSE, bidirectional_paths |-> {}, bidirectional_count |-> 0,
     diagnostic |-> "none", names |-> {}]

\* no parse thread has been started
NoWorkers ==
    [pc |-> << >>, files |-> << >>,
     batch_functions |-> << >>, batch_calls |-> << >>, batch_variables |-> << >>]

Init ==
    /\ call_graph = EmptyCallGraph
    /\ phase = "build"
    /\ ops = 0
    /\ driver \in {"api", "indexer"}
    /\ short_to_qualified = EmptyMap
    /\ stage = "functions"
    /\ index_file = << >>
    /\ loaded = NotLoaded
    /\ query = NoQuery
    /\ workers = NoWorkers
    /\ string_pool = NoPool

\* ------------------------------------------------------- Graph API client
Mutate(g) ==
    /\ call_graph' = g
    /\ ops' = ops + 1
    /\ UNCHANGED <<phase, driver, short_to_qualified, stage, index_file, loaded, query, workers, string_pool>>

ApiEnabled == driver = "api" /\ phase = "build" /\ ops < MaxOps

AddSymbol ==
    /\ ApiEnabled
    /\ \E name \in ApiNames, type \in ApiTypes :
          Mutate(Graph_add_symbol(call_graph, name, type).g)

\* add_symbol(name, path): the type argument left at its default
AddSymbolFile ==
    /\ ApiEnabled
    /\ \E name \in ApiNames, path \in ApiPaths :
          Mutate(Graph_add_symbol_file(call_graph, name, path, SymbolTypeFunction).g)

AddCall ==
    /\ ApiEnabled
    /\ \E caller \in ApiNames, callee \in ApiNames :
          Mutate(Graph_add_call(call_graph, caller, callee))

AddDataFlow ==
    /\ ApiEnabled
    /\ \E source \in ApiNames, dest \in ApiNames :
          Mutate(Graph_add_data_flow(call_graph, source, dest))

\* ---------------------------------------------------------- Indexer::index
\* std::string::rfind of "::": 1-based position of the last occurrence, 0 if none
RFindScope(s) ==
    IF \E i \in 1..(Len(s) - 1) : s[i] = ":" /\ s[i + 1] = ":"
    THEN CHOOSE i \in 1..(Len(s) - 1) :
            /\ s[i] = ":" /\ s[i + 1] = ":"
            /\ \A j \in (i + 1)..(Len(s) - 1) : ~(s[j] = ":" /\ s[j + 1] = ":")
    ELSE 0

\* std::string_view::rfind('.')
RFindDot(s) ==
    IF \E i \in 1..Len(s) : s[i] = "."
    THEN CHOOSE i \in 1..Len(s) : s[i] = "." /\ \A j \in (i + 1)..Len(s) : s[j] # "."
    ELSE 0

\* short_name of a function record: the tail after the last "::"
function_short_name(qualified_name) ==
    LET p == RFindScope(qualified_name)
    IN IF p = 0 THEN qualified_name ELSE SubSeq(qualified_name, p + 2, Len(qualified_name))

\* callee_short / source_short: the tail after the last "::", then after the last '.'
callee_short(name) ==
    LET p == RFindScope(name)
        v == IF p = 0 THEN name ELSE SubSeq(name, p + 2, Len(name))
        d == RFindDot(v)
    IN IF d = 0 THEN v ELSE SubSeq(v, d + 1, Len(v))

\* the name a callee or value source is bound to
resolve(map, name) ==
    IF callee_short(name) \in DOMAIN map THEN map[callee_short(name)] ELSE name

\* the body of "for (const auto &func : batch_functions)"
index_function(g, func) == Graph_add_symbol_file(g, func.qualified_name, func.file_path,
                                                 SymbolTypeFunction).g

\* the body of "for (const auto &call : batch_calls)"
index_call(g, map, call) ==
    LET callee == resolve(map, call.callee_name)
        g1 == IF ~has_symbol(g, callee)
              THEN Graph_add_symbol(g, callee, SymbolTypeFunction).g ELSE g
        g2 == IF ~has_symbol(g1, call.caller_name)
              THEN Graph_add_symbol(g1, call.caller_name, SymbolTypeFunction).g ELSE g1
    IN Graph_add_call(g2, call.caller_name, callee)

\* the body of "for (const auto &var : batch_variables)"
index_variable(g, map, var) ==
    LET func_uid == get_uid(g, var.containing_func)
        sym_file_uid == IF func_uid # INVALID_UID
                        THEN get_symbol_file_uid(g, func_uid) ELSE INVALID_UID
        var_file == IF sym_file_uid # INVALID_UID
                    THEN get_file_path(g, sym_file_uid) ELSE << >>
        g1 == Graph_add_symbol_file(g, var.qualified_name, var_file,
                                    SymbolTypeVariable).g
        source == IF var.from_function_call THEN resolve(map, var.value_source)
                  ELSE var.value_source
        g2 == IF ~has_symbol(g1, source)
              THEN Graph_add_symbol_file(g1, source, var_file,
                       IF var.from_function_call THEN SymbolTypeFunction
                       ELSE SymbolTypeVariable).g
              ELSE g1
    IN IF Len(var.value_source) = 0 THEN g1
       ELSE Graph_add_data_flow(g2, source, var.qualified_name)

\* "if (short_to_qualified.find(short_name) == short_to_qualified.end())
\*      short_to_qualified[short_name] = func.qualified_name;"
bind_short_name(map, func) ==
    IF function_short_name(func.qualified_name) \in DOMAIN map THEN map
    ELSE Put(map, function_short_name(func.qualified_name), func.qualified_name)

IndexerEnabled == driver = "indexer" /\ phase = "build" /\ ops < MaxOps

IndexFunction ==
    /\ IndexerEnabled
    /\ stage = "functions"
    /\ \E func \in FunctionRecords :
          /\ call_graph' = index_function(call_graph, func)
          /\ short_to_qualified' = bind_short_name(short_to_qualified, func)
    /\ ops' = ops + 1
    /\ UNCHANGED <<phase, driver, stage, index_file, loaded, query, workers, string_pool>>

IndexCall ==
    /\ IndexerEnabled
    /\ stage \in {"functions", "calls"}
    /\ \E call \in CallRecords :
          call_graph' = index_call(call_graph, short_to_qualified, call)
    /\ stage' = "calls"
    /\ ops' = ops + 1
    /\ UNCHANGED <<phase, driver, short_to_qualified, index_file, loaded, query, workers, string_pool>>

IndexVariable ==
    /\ IndexerEnabled
    /\ \E var \in VariableRecords :
          call_graph' = index_variable(call_graph, short_to_qualified, var)
    /\ stage' = "variables"
    /\ ops' = ops + 1
    /\ UNCHANGED <<phase, driver, short_to_qualified, index_file, loaded, query, workers, string_pool>>

\* the next iteration of "for (size_t batch = 0; ...)"
NextBatch ==
    /\ IndexerEnabled
    /\ stage # "functions"
    /\ stage' = "functions"
    /\ UNCHANGED <<call_graph, phase, ops, driver, short_to_qualified, index_file,
                   loaded, query, workers, string_pool>>

\* -------------------------------------------------- finalize, save and load
\* Graph::finalize, called once by a client of the Graph API when the graph
\* has been populated; Indexer::index returns its graph without calling it
Finalize ==
    /\ driver = "api"
    /\ phase = "build"
    /\ call_graph' = CallGraph_finalize(call_graph)
    /\ phase' = "final"
    /\ UNCHANGED <<ops, driver, short_to_qualified, stage, index_file, loaded, query, workers, string_pool>>

\* cmd_index: graph.save(INDEX_FILE)
Save ==
    /\ phase \in {"build", "final"}
    /\ index_file' = Graph_save(call_graph)
    /\ phase' = "saved"
    /\ UNCHANGED <<call_graph, ops, driver, short_to_qualified, stage, loaded, query, workers, string_pool>>

\* load_graph: Graph::load(INDEX_FILE, mode)
Load ==
    /\ phase = "saved"
    /\ loaded.state = "none"
    /\ \E doc \in {json_document(index_file)}, mode \in LoadModes :
          \E r \in {Graph_load(index_file, doc, mode)} :
             loaded' = [state |-> IF r.ok THEN "ok" ELSE "error",
                        mode |-> mode, graph |-> r.graph, events |-> r.events]
    /\ UNCHANGED <<call_graph, phase, ops, driver, short_to_qualified, stage,
                   index_file, query, workers, string_pool>>

Next ==
    \/ AddSymbol
    \/ AddSymbolFile
    \/ AddCall
    \/ AddDataFlow
    \/ IndexFunction
    \/ IndexCall
    \/ IndexVariable
    \/ NextBatch
    \/ Finalize
    \/ Save
    \/ Load

Spec == Init /\ [][Next]_vars

\* ================================================================== claims
Finalized(g) == g.end_uid # INVALID_UID

\* forward map fwd and reverse map rev describe the same edge set
Consistent(fwd, rev) ==
    /\ \A a \in DOMAIN fwd : \A b \in fwd[a] : b \in DOMAIN rev /\ a \in rev[b]
    /\ \A b \in DOMAIN rev : \A a \in rev[b] : a \in DOMAIN fwd /\ b \in fwd[a]

AdjacencyConsistent(g) ==
    /\ Consistent(g.call_map, g.reverse_call_map)
    /\ Consistent(g.data_flow_map, g.reverse_data_flow_map)

\* C1: in every graph built by add_symbol, add_call, add_data_flow and
\* finalize, and in every graph loaded from a saved index, b is a callee of a
\* exactly when a is a caller of b, and likewise for the two data-flow maps.
C1_ForwardReverseAgree ==
    /\ AdjacencyConsistent(call_graph)
    /\ loaded.state = "ok" => AdjacencyConsistent(loaded.graph)

\* a finalized graph with call and data-flow edges has been saved and loaded in full
C1_Witness ==
    /\ loaded.state = "ok" /\ loaded.mode = "Full"
    /\ Finalized(call_graph)
    /\ \E a \in DOMAIN loaded.graph.call_map : loaded.graph.call_map[a] # {}
    /\ \E a \in DOMAIN loaded.graph.data_flow_map : loaded.graph.data_flow_map[a] # {}

FunctionUids(g) == {u \in DOMAIN g.symbol_types : g.symbol_types[u] = SymbolTypeFunction}

\* C2: a finalize step leaves END without outgoing call edges and every
\* Function-typed symbol with at least one; a function without outgoing call
\* edges before the step has exactly the edge to END after it.
C2_FinalizeClosesLeaves ==
    [][(phase = "build" /\ phase' = "final") =>
          /\ get_callees(call_graph', call_graph'.end_uid) = {}
          /\ \A u \in FunctionUids(call_graph') : get_callees(call_graph', u) # {}
          /\ \A u \in FunctionUids(call_graph) :
                get_callees(call_graph, u) = {} =>
                    get_callees(call_graph', u) = {call_graph'.end_uid}]_vars

\* the UIDs that carry a symbol record
LiveUids(g) == DOMAIN g.uid_to_string_idx

\* C3: after finalize the name->UID map and the UID->name map are mutually
\* inverse on the live symbols, END included, and no two live UIDs have the
\* same name.
C3_NameUidBijection ==
    Finalized(call_graph) =>
        /\ \A u \in LiveUids(call_graph) :
              get_uid(call_graph, get_symbol(call_graph, u)) = u
        /\ \A u, v \in LiveUids(call_graph) :
              get_symbol(call_graph, u) = get_symbol(call_graph, v) => u = v
        /\ \A n \in DOMAIN call_graph.symbol_to_uid :
              get_symbol(call_graph, call_graph.symbol_to_uid[n]) = n

\* every UID that is a key or a member of one of the four adjacency maps
AdjacencyUids(g) ==
    LET of(m) == (DOMAIN m) \cup UNION {m[k] : k \in DOMAIN m}
    IN of(g.call_map) \cup of(g.reverse_call_map)
       \cup of(g.data_flow_map) \cup of(g.reverse_data_flow_map)

\* C4: every UID of an adjacency map is the UID of a name in the name->UID
\* table of the graph being built.
C4_EdgeUidsAreNamed ==
    AdjacencyUids(call_graph) \subseteq Range(call_graph.symbol_to_uid)

\* the paths of the file table, by file UID
FilePaths(g) == [fu \in DOMAIN g.file_uid_to_path_idx |-> get_file_path(g, fu)]

\* the tables of g that C5 compares
RoundTripView(g) ==
    [symbol_to_uid |-> g.symbol_to_uid,
     symbol_types |-> g.symbol_types,
     call_map |-> g.call_map,
     reverse_call_map |-> g.reverse_call_map,
     data_flow_map |-> g.data_flow_map,
     reverse_data_flow_map |-> g.reverse_data_flow_map,
     filepath_to_uid |-> g.filepath_to_uid,
     file_paths |-> FilePaths(g),
     file_to_symbols |-> g.file_to_symbols,
     symbol_to_file |-> g.symbol_to_file,
     end_uid |-> g.end_uid]

Returned(q) == [q EXCEPT !.pc = "done"]

\* "std::cerr << "Error: ..." << std::endl; return;"
Diagnosed(q, message) == [q EXCEPT !.pc = "done", !.diagnostic = message]

\* "for (SymbolUID uid : current_path) path_str.push_back(get_symbol(uid))"
path_str(g, path) == [i \in 1..Len(path) |-> get_symbol(g, path[i])]

\* "for (auto it = current_path.rbegin(); it != current_path.rend(); ++it)"
Reversed(path) == [i \in 1..Len(path) |-> path[Len(path) + 1 - i]]

\* "stack.push_back({start, begin, end}); current_path.push_back(start);
\* in_path.insert(start)" at the head of each dfs_* function
dfs_begin(q, kind, start, end, neighbours) ==
    [q EXCEPT !.pc = "run", !.dfs = kind, !.start = start, !.end = end,
              !.stack = <<[node |-> start, rest |-> neighbours]>>,
              !.current_path = <<start>>, !.in_path = {start},
              !.emitted = << >>, !.stopped = FALSE]

\* "in_path.erase(state.node); current_path.pop_back(); stack.pop_back()";
\* the loop "while (!stack.empty())" ends with the last frame
backtrack(q) ==
    [q EXCEPT !.in_path = @ \ {q.stack[Len(q.stack)].node},
              !.current_path = SubSeq(@, 1, Len(@) - 1),
              !.stack = SubSeq(@, 1, Len(@) - 1),
              !.pc = IF Len(q.stack) = 1 THEN "done" ELSE "run"]

\* a callback whose result is recorded but does not end the enumeration
\* (the fault C10 has to exclude)
emit_and_continue(q, uids, names, r) ==
    backtrack([q EXCEPT !.emitted = Append(@, [uids |-> uids, names |-> names]),
                        !.stopped = @ \/ ~r])

\* "if (!callback(path_str)) return;" followed by the backtrack; r is the
\* value the callback returns
emit(q, uids, names, r) ==
    LET q1 == [q EXCEPT !.emitted = Append(@, [uids |-> uids, names |-> names])]
    IN IF ~r THEN [q1 EXCEPT !.pc = "done", !.stopped = TRUE]
       ELSE backtrack(q1)

\* an iterator that is not advanced (the fault C9 has to exclude)
advance_not(rest, callee) == rest

\* "++state.current_it" past the member the inner while loop stops at
advance(rest, callee) == rest \ {callee}

\* the push of the inner while loop: the iterator of the top frame has
\* passed callee, and callee's frame is entered
push(q, callee, neighbours) ==
    [q EXCEPT !.stack = Append([@ EXCEPT ![Len(@)].rest = advance(@, callee)],
                               [node |-> callee, rest |-> neighbours]),
              !.current_path = Append(@, callee),
              !.in_path = @ \cup {callee}]

\* the members the inner while loop does not skip: "if (in_path.count(callee))
\* continue;"
not_in_path(q) ==
    {c \in q.stack[Len(q.stack)].rest : c \notin q.in_path}

\* one iteration of the while loop of dfs_forward; next is the member the
\* inner loop stops at, INVALID_UID when it reaches end_it
dfs_forward(g, q, r, next) ==
    LET state == q.stack[Len(q.stack)]
    IN IF state.node = q.end
       THEN emit(q, q.current_path, path_str(g, q.current_path), r)
       ELSE IF next = INVALID_UID THEN backtrack(q)
       ELSE push(q, next, get_callees(g, next))

\* one iteration of the while loop of dfs_backward
dfs_backward(g, q, r, next) ==
    LET state == q.stack[Len(q.stack)]
        is_root == get_callers(g, state.node) = {}
        is_end == q.end # INVALID_UID /\ state.node = q.end
    IN IF is_root \/ is_end
       THEN emit(q, Reversed(q.current_path),
                 path_str(g, Reversed(q.current_path)), r)
       ELSE IF next = INVALID_UID THEN backtrack(q)
       ELSE push(q, next, get_callers(g, next))

\* phase 1 of dfs_bidirectional: the queue of the backward BFS from end
RECURSIVE backward_bfs(_, _, _, _)
backward_bfs(g, queue, head, can_reach_end) ==
    IF head > Len(queue) THEN can_reach_end
    ELSE LET fresh == get_callers(g, queue[head]) \ can_reach_end
         IN backward_bfs(g, queue \o SetToSeq(fresh), head + 1,
                         can_reach_end \cup fresh)

\* a pruning set that leaves out end itself (the fault C8 has to exclude)
can_reach_before_end(q) ==
    {c \in not_in_path(q) : c \in q.can_reach_end \ {q.end}}

\* "PRUNING: Skip if this callee can't reach end"
can_reach(q) == {c \in not_in_path(q) : c \in q.can_reach_end}

\* one iteration of the while loop of phase 2 of dfs_bidirectional
dfs_bidirectional(g, q, r, next) ==
    LET state == q.stack[Len(q.stack)]
    IN IF state.node = q.end
       THEN emit(q, q.current_path, path_str(g, q.current_path), r)
       ELSE IF next = INVALID_UID THEN backtrack(q)
       ELSE push(q, next, get_callees(g, next))

\* one iteration of the while loop of dfs_data_flow
dfs_data_flow(g, q, r, next) ==
    LET state == q.stack[Len(q.stack)]
    IN IF state.node = q.end /\ Len(q.current_path) > 1
       THEN emit(q, q.current_path, path_str(g, q.current_path), r)
       ELSE IF next = INVALID_UID THEN backtrack(q)
       ELSE push(q, next, get_data_sinks(g, next))

\* QueryEngine::forward_trace
forward_trace(g, q, symbol) ==
    LET start_uid == get_uid(g, symbol)
        q1 == [q EXCEPT !.op = "forward_trace", !.start_name = symbol,
                        !.end_name = END_NAME]
    IN IF start_uid = INVALID_UID THEN Diagnosed(q1, "Symbol not found")
       ELSE dfs_begin(q1, "forward", start_uid, g.end_uid,
                      get_callees(g, start_uid))

\* QueryEngine::backtrace
backtrace(g, q, symbol) ==
    LET target_uid == get_uid(g, symbol)
        q1 == [q EXCEPT !.op = "backtrace", !.start_name = START_NAME,
                        !.end_name = symbol]
    IN IF target_uid = INVALID_UID THEN Diagnosed(q1, "Symbol not found")
       ELSE dfs_begin(q1, "backward", target_uid, INVALID_UID,
                      get_callers(g, target_uid))

\* the head of dfs_bidirectional: phase 1, the early return, and the first
\* frame of phase 2
dfs_bidirectional_begin(g, q, start, end) ==
    LET q1 == [q EXCEPT !.dfs = "bidirectional", !.start = start, !.end = end,
                        !.can_reach_end = backward_bfs(g, <<end>>, 1, {end})]
    IN IF start \notin q1.can_reach_end THEN Returned(q1)
       ELSE dfs_begin(q1, "bidirectional", start, end, get_callees(g, start))

\* QueryEngine::find_paths
find_paths(g, q, start, end) ==
    IF start = START_NAME THEN backtrace(g, q, end)
    ELSE IF end = END_NAME THEN forward_trace(g, q, start)
    ELSE IF start = START_NAME /\ end = END_NAME
         THEN Diagnosed(q, "Cannot use both START and END")
    ELSE LET start_uid == get_uid(g, start)
             end_uid == get_uid(g, end)
             q1 == [q EXCEPT !.op = "find_paths", !.start_name = start,
                             !.end_name = end]
         IN IF start_uid = INVALID_UID THEN Diagnosed(q1, "Symbol not found")
            ELSE IF end_uid = INVALID_UID THEN Diagnosed(q1, "Symbol not found")
            ELSE dfs_bidirectional_begin(g, q1, start_uid, end_uid)

\* QueryEngine::find_data_flow_paths
find_data_flow_paths(g, q, source, variable) ==
    LET src_uid == get_uid(g, source)
        var_uid == get_uid(g, variable)
        q1 == [q EXCEPT !.op = "find_data_flow_paths", !.start_name = source,
                        !.end_name = variable]
    IN IF src_uid = INVALID_UID THEN Diagnosed(q1, "Source symbol not found")
       ELSE IF var_uid = INVALID_UID THEN Diagnosed(q1, "Variable not found")
       ELSE dfs_begin(q1, "data_flow", src_uid, var_uid,
                      get_data_sinks(g, src_uid))

\* QueryEngine::data_sources(variable): the names of the sources of the
\* variable, none for an unknown name; empty names are skipped
data_sources(g, variable) ==
    IF get_uid(g, variable) = INVALID_UID THEN {}
    ELSE {get_symbol(g, uid) : uid \in get_data_sources(g, get_uid(g, variable))}
             \ {<< >>}

\* QueryEngine::data_sinks(source): the names of the variables the source
\* flows into
data_sinks(g, source) ==
    IF get_uid(g, source) = INVALID_UID THEN {}
    ELSE {get_symbol(g, uid) : uid \in get_data_sinks(g, get_uid(g, source))}
             \ {<< >>}

\* ---------------------------------------------- graphs the engine is given
\* the symbol names of the queried graphs and the edges a client may add
QueryNames == {N_f, N_g, N_h, END_NAME}
QueryArgs == QueryNames \cup {START_NAME}

CallPairs ==
    {<<N_f, N_f>>, <<N_f, N_g>>, <<N_g, N_f>>, <<N_g, N_h>>, <<N_f, N_h>>,
     <<N_h, N_f>>, <<N_g, END_NAME>>, <<END_NAME, N_f>>}

FlowPairs ==
    {<<N_f, N_g>>, <<N_g, N_f>>, <<N_g, N_g>>, <<N_g, N_h>>, <<N_f, N_h>>}

\* a client's calls of Graph::add_call, one for each pair
RECURSIVE add_calls(_, _)
add_calls(g, pairs) ==
    IF pairs = {} THEN g
    ELSE LET p == CHOOSE x \in pairs : TRUE
         IN add_calls(Graph_add_call(g, p[1], p[2]), pairs \ {p})

\* a client's calls of Graph::add_data_flow, one for each pair
RECURSIVE add_data_flows(_, _)
add_data_flows(g, pairs) ==
    IF pairs = {} THEN g
    ELSE LET p == CHOOSE x \in pairs : TRUE
         IN add_data_flows(Graph_add_data_flow(g, p[1], p[2]), pairs \ {p})

\* a graph built through the Graph API, finalized or not
BuildGraph(calls, flows, finalized) ==
    LET g == add_data_flows(add_calls(EmptyCallGraph, calls), flows)
    IN IF finalized THEN CallGraph_finalize(g) ELSE g

QueryInit ==
    /\ \E calls \in SUBSET CallPairs, flows \in SUBSET FlowPairs,
          finalized \in BOOLEAN :
          /\ Cardinality(calls) + Cardinality(flows) <= MaxQueryEdges
          /\ call_graph = BuildGraph(calls, flows, finalized)
    /\ phase = "query"
    /\ ops = 0
    /\ driver = "api"
    /\ short_to_qualified = EmptyMap
    /\ stage = "functions"
    /\ index_file = << >>
    /\ loaded = NotLoaded
    /\ query = NoQuery
    /\ workers = NoWorkers
    /\ string_pool = NoPool

\* ------------------------------------------------------- QueryEngine client
Ask(q) ==
    /\ phase = "query"
    /\ query.pc = "idle"
    /\ query' = q
    /\ UNCHANGED <<call_graph, phase, ops, driver, short_to_qualified, stage,
                   index_file, loaded, workers, string_pool>>

FindPaths ==
    \E start \in QueryArgs, end \in QueryArgs :
        Ask(find_paths(call_graph, query, start, end))

Backtrace ==
    \E symbol \in QueryNames : Ask(backtrace(call_graph, query, symbol))

ForwardTrace ==
    \E symbol \in QueryNames : Ask(forward_trace(call_graph, query, symbol))

FindDataFlowPaths ==
    \E source \in QueryNames, variable \in QueryNames :
        Ask(find_data_flow_paths(call_graph, query, source, variable))

\* a call of data_sources(variable): the vector it returns
DataSources ==
    \E variable \in QueryNames :
        Ask([query EXCEPT !.pc = "done", !.op = "data_sources",
                          !.start_name = variable,
                          !.names = data_sources(call_graph, variable)])

\* a call of data_sinks(source)
DataSinks ==
    \E source \in QueryNames :
        Ask([query EXCEPT !.pc = "done", !.op = "data_sinks",
                          !.start_name = source,
                          !.names = data_sinks(call_graph, source)])

\* the member the inner while loop stops at: any member it does not skip,
\* INVALID_UID when there is none
NextMember(members) == IF members = {} THEN {INVALID_UID} ELSE members

Running(kind) ==
    /\ phase = "query"
    /\ query.pc = "run"
    /\ query.dfs = kind
    /\ UNCHANGED <<call_graph, phase, ops, driver, short_to_qualified, stage,
                   index_file, loaded, workers, string_pool>>

StepForward ==
    /\ Running("forward")
    /\ \E r \in BOOLEAN, next \in NextMember(not_in_path(query)) :
          query' = dfs_forward(call_graph, query, r, next)

StepBackward ==
    /\ Running("backward")
    /\ \E r \in BOOLEAN, next \in NextMember(not_in_path(query)) :
          query' = dfs_backward(call_graph, query, r, next)

StepBidirectional ==
    /\ Running("bidirectional")
    /\ \E r \in BOOLEAN, next \in NextMember(can_reach(query)) :
          query' = dfs_bidirectional(call_graph, query, r, next)

StepDataFlow ==
    /\ Running("data_flow")
    /\ \E r \in BOOLEAN, next \in NextMember(not_in_path(query)) :
          query' = dfs_data_flow(call_graph, query, r, next)

\* dfs_forward(start, end) run on the arguments of a finished
\* dfs_bidirectional(start, end), whose paths are kept for the comparison
ReferenceForward ==
    /\ phase = "query"
    /\ query.pc = "done"
    /\ query.dfs = "bidirectional"
    /\ ~query.stopped
    /\ ~query.compared
    /\ query' = dfs_begin(
           [query EXCEPT !.compared = TRUE,
                         !.bidirectional_paths =
                             {query.emitted[i].names : i \in 1..Len(query.emitted)},
                         !.bidirectional_count = Len(query.emitted)],
           "forward", query.start, query.end,
           get_callees(call_graph, query.start))
    /\ UNCHANGED <<call_graph, phase, ops, driver, short_to_qualified, stage,
                   index_file, loaded, workers, string_pool>>

QueryNext ==
    \/ FindPaths
    \/ Backtrace
    \/ ForwardTrace
    \/ FindDataFlowPaths
    \/ DataSources
    \/ DataSinks
    \/ StepForward
    \/ StepBackward
    \/ StepBidirectional
    \/ StepDataFlow
    \/ ReferenceForward

QuerySpec == QueryInit /\ [][QueryNext]_vars

\* the enumeration is a sequential loop: it keeps taking steps until it
\* returns
QueryFairSpec == QuerySpec /\ WF_vars(QueryNext)

\* ------------------------------------------------- claims on the enumeration
Emitted == {query.emitted[k] : k \in 1..Len(query.emitted)}

CallSearch == query.dfs \in {"forward", "backward", "bidirectional"}

NoRepeat(p) == \A i \in 1..Len(p), j \in 1..Len(p) : p[i] = p[j] => i = j

\* C6: every path handed to the callback by find_paths, backtrace,
\* forward_trace and find_data_flow_paths is simple: no symbol name occurs
\* twice in it.
C6_EmittedPathsSimple == \A e \in Emitted : NoRepeat(e.names)

\* the nodes behind an emitted path are pairwise distinct (in_path keeps a
\* node from being entered twice)
EmittedNodesSimple == \A e \in Emitted : NoRepeat(e.uids)

\* caller -> callee is a call edge of the graph, by the names the callback
\* is given
CallEdge(g, caller, callee) ==
    get_uid(g, callee) \in get_callees(g, get_uid(g, caller))

\* C7: every emitted call path begins at the query's start and ends at its
\* end (forward_trace: the last element is END; backtrace: the last element
\* is the target), and every consecutive pair is a call edge of the graph.
C7_CallPathsFollowEdges ==
    CallSearch =>
        \A e \in Emitted :
            LET p == e.names
                n == Len(p)
            IN /\ n >= 1
               /\ query.op \in {"find_paths", "forward_trace"} =>
                      p[1] = query.start_name
               /\ p[n] = query.end_name
               /\ \A i \in 1..(n - 1) : CallEdge(call_graph, p[i], p[i + 1])

\* the same, for the nodes behind the emitted names
EmittedNodesFollowEdges ==
    CallSearch =>
        \A e \in Emitted :
            LET n == Len(e.uids)
            IN /\ e.names = path_str(call_graph, e.uids)
               /\ query.op \in {"find_paths", "forward_trace"} =>
                      e.uids[1] = get_uid(call_graph, query.start_name)
               /\ e.uids[n] = get_uid(call_graph, query.end_name)
               /\ \A i \in 1..(n - 1) :
                      e.uids[i + 1] \in get_callees(call_graph, e.uids[i])

\* both searches have run to their end on the same (start, end)
Compared == query.compared /\ query.pc = "done" /\ ~query.stopped

\* C8: on every graph and every pair of existing symbols, start = end
\* included, dfs_bidirectional emits the same set of paths as the unpruned
\* dfs_forward from start to end, and emits each path once.
C8_BidirectionalEqualsForward ==
    Compared =>
        /\ query.bidirectional_paths = {e.names : e \in Emitted}
        /\ query.bidirectional_count = Cardinality(query.bidirectional_paths)

C8_Witness ==
    /\ Compared
    /\ query.bidirectional_count >= 2
    /\ \E p \in query.bidirectional_paths : Len(p) >= 3

\* find_paths(f, g) on the graph f -> g, g -> f
MutualRecursion ==
    /\ {<<get_symbol(call_graph, a), get_symbol(call_graph, b)>> :
            a \in DOMAIN call_graph.call_map, b \in DOMAIN call_graph.call_map} =
       {<<N_f, N_f>>, <<N_f, N_g>>, <<N_g, N_f>>, <<N_g, N_g>>}
    /\ \A a \in DOMAIN call_graph.call_map :
           \A b \in DOMAIN call_graph.call_map :
               b \in call_graph.call_map[a] <=> a # b
    /\ query.op = "find_paths"
    /\ query.start_name = N_f
    /\ query.end_name = N_g
    /\ ~query.stopped

EmittedNames == [k \in 1..Len(query.emitted) |-> query.emitted[k].names]

\* C9: every enumeration that has begun returns, on every graph, cycles
\* included; on f -> g, g -> f the query from f to g emits the one path
\* [f, g]: never more, and exactly that when it has returned.
C9_EnumerationTerminates ==
    /\ (query.pc = "run") ~> (query.pc = "done")
    /\ [](MutualRecursion =>
              /\ EmittedNames \in {<< >>, << <<N_f, N_g>> >>}
              /\ query.pc = "done" => EmittedNames = << <<N_f, N_g>> >>)

C9_Witness ==
    MutualRecursion /\ query.pc = "done" /\ Len(query.emitted) = 1 /\ ~query.compared

\* C10: once the callback has returned false it is not invoked again for
\* that query, whichever search is running.
C10_NoCallbackAfterStop ==
    [][query.stopped => query'.emitted = query.emitted]_vars

C10_Witness ==
    /\ query.stopped
    /\ Len(query.emitted) >= 2
    /\ \E i \in 1..Len(query.stack) :
           \E c \in query.stack[i].rest : c \notin query.in_path

\* C11: find_paths("START", "END", callback) is an error: the call returns
\* without starting a traversal, and the callback is never invoked
C11_BothSentinelsIsError ==
    [][(query.pc = "idle" /\
        query' = find_paths(call_graph, query, START_NAME, END_NAME))
       => (query'.pc = "done" /\ query'.stack = << >> /\ query'.emitted = << >>)]_vars

\* the callers of symbol name, by name
CallersOf(g, name) == {m \in DOMAIN g.symbol_to_uid : CallEdge(g, m, name)}

\* the simple call paths that begin at a root and end with the names of
\* path: path itself when its first symbol has no callers, else the
\* extensions of path by a caller that is not yet on it
RECURSIVE RootPaths(_, _)
RootPaths(g, path) ==
    IF CallersOf(g, path[1]) = {} THEN {path}
    ELSE UNION {RootPaths(g, <<m>> \o path) :
                   m \in {c \in CallersOf(g, path[1]) :
                             \A i \in 1..Len(path) : path[i] # c}}

\* the same for nodes: the simple paths of UIDs from a node without callers
RECURSIVE RootNodePaths(_, _)
RootNodePaths(g, path) ==
    IF get_callers(g, path[1]) = {} THEN {path}
    ELSE UNION {RootNodePaths(g, <<m>> \o path) :
                   m \in {c \in get_callers(g, path[1]) :
                             \A i \in 1..Len(path) : path[i] # c}}

BacktraceDone == query.op = "backtrace" /\ query.pc = "done" /\ ~query.stopped

\* C12: backtrace(sym) hands the callback exactly the simple call paths that
\* begin at a root (a symbol with no callers) and end at sym, root first,
\* each of them once: every emitted path is one of them and none is emitted
\* twice, and when the search has run to its end all of them were emitted.
C12_BacktraceEmitsRootPaths ==
    query.op = "backtrace" =>
        LET expected == IF has_symbol(call_graph, query.end_name)
                        THEN RootPaths(call_graph, <<query.end_name>>) ELSE {}
        IN /\ \A e \in Emitted : e.names \in expected
           /\ NoRepeat(EmittedNames)
           /\ BacktraceDone => {e.names : e \in Emitted} = expected

\* the same, for the nodes behind the emitted names
BacktraceNodesExact ==
    query.op = "backtrace" =>
        LET target == get_uid(call_graph, query.end_name)
            expected == IF target # INVALID_UID
                        THEN RootNodePaths(call_graph, <<target>>) ELSE {}
        IN /\ \A e \in Emitted :
               e.uids \in expected /\ e.names = path_str(call_graph, e.uids)
           /\ NoRepeat([k \in 1..Len(query.emitted) |-> query.emitted[k].uids])
           /\ BacktraceDone => {e.uids : e \in Emitted} = expected

\* h is called by f and by g, both roots: backtrace(h) has emitted [f, h]
\* and [g, h] and nothing else
BacktraceTwoCallers ==
    /\ BacktraceDone
    /\ query.end_name = N_h
    /\ {e.names : e \in Emitted} = {<<N_f, N_h>>, <<N_g, N_h>>}
    /\ Len(query.emitted) = 2

\* C13: the graph Indexer::index returns, which cmd_index saves, has been
\* finalized: END is a symbol of it, with end_uid as its UID, and every
\* function of it has an outgoing call edge, a leaf function the one to END
C13_IndexerFinalizes ==
    (driver = "indexer" /\ phase = "saved") =>
        /\ Finalized(call_graph)
        /\ get_uid(call_graph, END_NAME) = call_graph.end_uid
        /\ \A u \in FunctionUids(call_graph) \ {call_graph.end_uid} :
               get_callees(call_graph, u) # {}

\* forward_trace on a graph that was never finalized searches for
\* end_uid = INVALID_UID, which no node is: the callback is not invoked
UnfinalizedForwardTraceEmitsNothing ==
    (~Finalized(call_graph) /\ query.op = "forward_trace") => query.emitted = << >>

\* C14: the first file attachment of a symbol wins: add_symbol(name, path,
\* type) for a name that already has an owning file, with a different path,
\* leaves the symbol's owning file and every file's list of owned symbols
\* as they were
C14_FirstAttachmentWins ==
    [][\A name \in ApiNames, path \in ApiPaths, type \in ApiTypes :
          LET file_uid == get_symbol_file_uid(call_graph, get_uid(call_graph, name))
          IN (/\ driver = "api" /\ phase = "build" /\ ops' = ops + 1
              /\ call_graph' = Graph_add_symbol_file(call_graph, name, path, type).g
              /\ file_uid # INVALID_UID
              /\ get_file_path(call_graph, file_uid) # path)
             => /\ call_graph'.symbol_to_file = call_graph.symbol_to_file
                /\ call_graph'.file_to_symbols = call_graph.file_to_symbols]_vars

\* a step that is a call add_symbol(name, type) on the graph being built
AddSymbolStep(name, type) ==
    /\ phase = "build" /\ phase' = "build"
    /\ ops' = ops + 1
    /\ call_graph' = Graph_add_symbol(call_graph, name, type).g

\* C15: add_symbol is idempotent on the name: a repeated add_symbol(name,
\* type) returns the UID the name was given at its first insertion (which no
\* step of the build changes), allocates no UID and leaves the symbol's
\* owning file and the files' symbol lists unchanged
C15_AddSymbolIdempotent ==
    [][/\ \A name \in DOMAIN call_graph.symbol_to_uid, type \in ApiTypes :
             AddSymbolStep(name, type) =>
                /\ Graph_add_symbol(call_graph, name, type).uid
                       = call_graph.symbol_to_uid[name]
                /\ call_graph'.next_uid = call_graph.next_uid
                /\ call_graph'.symbol_to_uid = call_graph.symbol_to_uid
                /\ call_graph'.uid_to_string_idx = call_graph.uid_to_string_idx
                /\ call_graph'.symbol_to_file = call_graph.symbol_to_file
                /\ call_graph'.file_to_symbols = call_graph.file_to_symbols
       /\ phase' = "build" =>
             \A name \in DOMAIN call_graph.symbol_to_uid :
                 /\ name \in DOMAIN call_graph'.symbol_to_uid
                 /\ call_graph'.symbol_to_uid[name] = call_graph.symbol_to_uid[name]]_vars

\* f was attached to a file and add_symbol(f, Variable) was repeated on it:
\* one symbol, one UID, its file still recorded
C15_Witness ==
    /\ driver = "api" /\ phase = "build" /\ ops = 2
    /\ call_graph.symbol_to_uid = Put(EmptyMap, N_f, 1)
    /\ call_graph.next_uid = 2
    /\ get_type(call_graph, 1) = SymbolTypeVariable
    /\ get_file_path(call_graph, get_symbol_file_uid(call_graph, 1)) = P_b
    /\ call_graph.file_to_symbols = Put(EmptyMap, 1, <<1>>)

\* C16: add_symbol(name, type) on an existing name whose type is a different
\* one makes type the symbol's type: the last write wins
C16_LastTypeWins ==
    [][\A name \in DOMAIN call_graph.symbol_to_uid, type \in ApiTypes :
          (/\ AddSymbolStep(name, type)
           /\ get_type(call_graph, get_uid(call_graph, name)) # type)
          => get_type(call_graph', get_uid(call_graph', name)) = type]_vars

\* f, created as a Function by add_call(f, f), was retyped by
\* add_symbol(f, Variable)
C16_Witness ==
    /\ driver = "api" /\ phase = "build" /\ ops = 2
    /\ get_uid(call_graph, N_f) \in get_callees(call_graph, get_uid(call_graph, N_f))
    /\ get_type(call_graph, get_uid(call_graph, N_f)) = SymbolTypeVariable
    /\ call_graph.symbol_to_file = EmptyMap

\* every UID a table of g mentions
AllUids(g) ==
    LiveUids(g) \cup Range(g.symbol_to_uid) \cup DOMAIN g.symbol_types
    \cup DOMAIN g.symbol_to_file \cup AdjacencyUids(g)

\* UID 0 is no symbol's UID and next_uid is above every UID of g
UidsBelowNext(g) == \A u \in AllUids(g) : u # INVALID_UID /\ u < g.next_uid

\* the UIDs of the graph being built are 1, 2, ..., next_uid - 1 with none
\* left out, and until finalize there is one per distinct name
DenseUids ==
    /\ LiveUids(call_graph) = 1..(call_graph.next_uid - 1)
    /\ phase = "build" =>
          /\ Range(call_graph.symbol_to_uid)
                 = 1..Cardinality(DOMAIN call_graph.symbol_to_uid)
          /\ call_graph.next_uid = Cardinality(DOMAIN call_graph.symbol_to_uid) + 1

\* a step of the build gives the names it inserts the next UIDs after the
\* k already assigned, and an existing name keeps its UID; finalize gives
\* END the next UID
MonotonicUids ==
    /\ (phase = "build" /\ phase' = "build") =>
          LET old == DOMAIN call_graph.symbol_to_uid
              new == DOMAIN call_graph'.symbol_to_uid \ old
              k == Cardinality(old)
          IN /\ {call_graph'.symbol_to_uid[n] : n \in new}
                    = (k + 1)..(k + Cardinality(new))
             /\ \A n \in old : call_graph'.symbol_to_uid[n] = call_graph.symbol_to_uid[n]
             /\ call_graph'.next_uid = call_graph.next_uid + Cardinality(new)
    /\ (phase = "build" /\ phase' = "final") =>
          /\ call_graph'.end_uid = call_graph.next_uid
          /\ call_graph'.next_uid = call_graph.next_uid + 1

SymbolView(g) ==
    [symbol_to_uid |-> g.symbol_to_uid,
     names |-> [u \in Range(g.symbol_to_uid) |-> get_symbol(g, u)],
     symbol_types |-> g.symbol_types]

\* the file tables of g
FileView(g) ==
    [filepath_to_uid |-> g.filepath_to_uid,
     file_paths |-> FilePaths(g),
     file_to_symbols |-> g.file_to_symbols,
     symbol_to_file |-> g.symbol_to_file]

NoAdjacency(g) ==
    /\ g.call_map = EmptyMap /\ g.reverse_call_map = EmptyMap
    /\ g.data_flow_map = EmptyMap /\ g.reverse_data_flow_map = EmptyMap

MaxVersion == 3

\* INDEX_SCHEMA_VERSION of the build that wrote a file: "major.minor.patch"
VersionString(major, minor, patch) ==
    to_string(major) \o <<".">> \o to_string(minor) \o <<".">> \o to_string(patch)

\* the version entries of the files read: every major.minor.0 up to
\* MaxVersion, 0.9.0, and an entry that is no major.minor.patch
IndexVersions ==
    {VersionString(major, minor, 0) : major \in 0..MaxVersion, minor \in 0..MaxVersion}
    \cup {VersionString(0, 9, 0), <<"0", ".", "9">>}

\* the file Graph::save writes, as written by a build of schema version
WithVersion(toks, version) ==
    [i \in 1..Len(toks) |->
        IF i > 1 /\ toks[i - 1] = TokKey(Key.version) THEN TokStr(version)
        ELSE toks[i]]

\* the "version" entry of the index file
FileVersion ==
    LET i == CHOOSE k \in 1..Len(index_file) : index_file[k] = TokKey(Key.version)
    IN index_file[i + 1].text

\* an index file of some schema version, holding a small graph, is on disk
VersionInit ==
    /\ \E calls \in SUBSET CallPairs, finalized \in BOOLEAN, version \in IndexVersions :
          /\ Cardinality(calls) <= 1
          /\ call_graph = BuildGraph(calls, {}, finalized)
          /\ index_file = WithVersion(Graph_save(call_graph), version)
    /\ phase = "saved"
    /\ ops = 0
    /\ driver = "api"
    /\ short_to_qualified = EmptyMap
    /\ stage = "functions"
    /\ loaded = NotLoaded
    /\ query = NoQuery
    /\ workers = NoWorkers
    /\ string_pool = NoPool

VersionSpec == VersionInit /\ [][Load]_vars

\* the file's version is major.minor.patch with these numbers
FileHasVersion(major, minor) == FileVersion = VersionString(major, minor, 0)

VersionRange == 0..(MaxVersion + 6)

UnparsedVersionLoads ==
    (loaded.state # "none" /\ FileVersion = <<"0", ".", "9">>) => loaded.state = "ok"

C21_ShortNameIsTail ==
    (driver = "indexer" /\ phase = "build") =>
        /\ \A short \in DOMAIN short_to_qualified :
               short = callee_short(short_to_qualified[short])
        /\ N_cm \in Range(short_to_qualified)
               => resolve(short_to_qualified, N_om) = N_cm

\* ------------------------------------------- Indexer::index: parse threads
\* config_.num_threads; each thread is given one file of the batch
NumThreads == 2

N_nf == <<"n", ":", ":", "f">>

\* what parse_file yields for a file
FileContents ==
    [functions : {<< >>, <<[qualified_name |-> N_mf, file_path |-> P_a]>>,
                  <<[qualified_name |-> N_nf, file_path |-> P_b]>>},
     calls : {<< >>, <<[caller_name |-> N_mf, callee_name |-> N_f]>>},
     variables : {<< >>}]

\* the three loops over the records of a batch, in the order of the vectors
RECURSIVE index_functions(_, _, _)
index_functions(g, map, funcs) ==
    IF funcs = << >> THEN [g |-> g, map |-> map]
    ELSE index_functions(index_function(g, Head(funcs)),
                         bind_short_name(map, Head(funcs)), Tail(funcs))

RECURSIVE index_calls(_, _, _)
index_calls(g, map, calls) ==
    IF calls = << >> THEN g
    ELSE index_calls(index_call(g, map, Head(calls)), map, Tail(calls))

RECURSIVE index_variables(_, _, _)
index_variables(g, map, variables) ==
    IF variables = << >> THEN g
    ELSE index_variables(index_variable(g, map, Head(variables)), map, Tail(variables))

\* "Process this batch": the graph and the lookup after the three loops
process_batch(g, map, functions, calls, variables) ==
    LET f == index_functions(g, map, functions)
    IN [g |-> index_variables(index_calls(f.g, f.map, calls), f.map, variables),
        map |-> f.map]

\* the threads have been created, each with its file parsed into its local
\* vectors
WorkerInit ==
    /\ \E files \in [1..NumThreads -> FileContents] :
          workers = [pc |-> [t \in 1..NumThreads |-> "functions"],
                     files |-> files,
                     batch_functions |-> << >>, batch_calls |-> << >>,
                     batch_variables |-> << >>]
    /\ call_graph = EmptyCallGraph
    /\ phase = "parse"
    /\ ops = 0
    /\ driver = "indexer"
    /\ short_to_qualified = EmptyMap
    /\ stage = "functions"
    /\ index_file = << >>
    /\ loaded = NotLoaded
    /\ query = NoQuery
    /\ string_pool = NoPool

\* worker_parse_files, "Final flush": a thread appends one of its local
\* vectors to the batch's vector under that vector's mutex
WorkerFlush ==
    /\ phase = "parse"
    /\ \E t \in 1..NumThreads :
          LET file == workers.files[t]
          IN \/ /\ workers.pc[t] = "functions"
                /\ workers' = [workers EXCEPT
                       !.batch_functions = @ \o file.functions,
                       !.pc[t] = "calls"]
             \/ /\ workers.pc[t] = "calls"
                /\ workers' = [workers EXCEPT
                       !.batch_calls = @ \o file.calls,
                       !.pc[t] = "variables"]
             \/ /\ workers.pc[t] = "variables"
                /\ workers' = [workers EXCEPT
                       !.batch_variables = @ \o file.variables,
                       !.pc[t] = "done"]
    /\ UNCHANGED <<call_graph, phase, ops, driver, short_to_qualified, stage,
                   index_file, loaded, query, string_pool>>

\* Indexer::index after "t.join()": the batch is processed by the one thread
ProcessBatch ==
    /\ phase = "parse"
    /\ \A t \in 1..NumThreads : workers.pc[t] = "done"
    /\ LET r == process_batch(call_graph, short_to_qualified, workers.batch_functions,
                              workers.batch_calls, workers.batch_variables)
       IN /\ call_graph' = r.g
          /\ short_to_qualified' = r.map
    /\ phase' = "indexed"
    /\ UNCHANGED <<ops, driver, stage, index_file, loaded, query, workers, string_pool>>

WorkerNext == WorkerFlush \/ ProcessBatch

WorkerSpec == WorkerInit /\ [][WorkerNext]_vars

\* the call edges of g, by the names of their ends
NamedCallEdges(g) ==
    UNION {{<<get_symbol(g, a), get_symbol(g, b)>> : b \in g.call_map[a]} :
              a \in DOMAIN g.call_map}

\* the records of the threads' files in the order of the files
RECURSIVE InFileOrder(_, _)
InFileOrder(field, t) ==
    IF t > NumThreads THEN << >>
    ELSE workers.files[t][field] \o InFileOrder(field, t + 1)

\* C22: for a fixed set of files and a fixed thread count, the lookup and the
\* call edges Indexer::index produces are the same for every interleaving of
\* the parse threads: they are what the records taken in the order of the
\* files produce
C22_SameForEveryInterleaving ==
    phase = "indexed" =>
        LET r == process_batch(EmptyCallGraph, EmptyMap, InFileOrder("functions", 1),
                               InFileOrder("calls", 1), InFileOrder("variables", 1))
        IN /\ short_to_qualified = r.map
           /\ NamedCallEdges(call_graph) = NamedCallEdges(r.g)

\* ------------------------------------------------------------------------
\* Data-flow queries by name.
\* ------------------------------------------------------------------------

\* the data-flow edges that have been added, by the names they were added under
AddedDataFlow(g) ==
    UNION {{<<get_symbol(g, a), get_symbol(g, b)>> : b \in g.data_flow_map[a]}
              : a \in DOMAIN g.data_flow_map}

\* C23: once a data-flow edge source -> variable has been added,
\* data_sources(variable) contains source and data_sinks(source) contains
\* variable, and an edge is reported in the opposite direction only if that
\* edge was added too.
C23_DataFlowReportedOneWay ==
    /\ \A e \in AddedDataFlow(call_graph) :
           /\ e[1] \in data_sources(call_graph, e[2])
           /\ e[2] \in data_sinks(call_graph, e[1])
    /\ \A source \in DOMAIN call_graph.symbol_to_uid :
           /\ \A v \in data_sinks(call_graph, source) :
                  <<source, v>> \in AddedDataFlow(call_graph)
           /\ \A s \in data_sources(call_graph, source) :
                  <<s, source>> \in AddedDataFlow(call_graph)

\* the step itself: right after add_data_flow(source, dest) both queries
\* report the edge, and the opposite direction is reported only if it was
\* reported before
DataFlowReportedAfterAdd ==
    [][\A source \in ApiNames, dest \in ApiNames :
          (ApiEnabled /\ call_graph' = Graph_add_data_flow(call_graph, source, dest)) =>
              /\ source \in data_sources(call_graph', dest)
              /\ dest \in data_sinks(call_graph', source)
              /\ source # dest =>
                    /\ dest \in data_sources(call_graph', source)
                          <=> dest \in data_sources(call_graph, source)
                    /\ source \in data_sinks(call_graph', dest)
                          <=> source \in data_sinks(call_graph, dest)]_vars

\* an assignment of a call result has been indexed and the graph holds its edge
IndexedDataFlow ==
    /\ driver = "indexer"
    /\ AddedDataFlow(call_graph) # {}
    /\ C23_DataFlowReportedOneWay

\* ------------------------------------------------------------------------
\* Symbol search (QueryEngine::find_symbols).
\* ------------------------------------------------------------------------

MaxPatterns == 2

\* find_symbols(pattern): the names of the symbol map that contain pattern
find_symbols_one(g, pattern) ==
    {symbol \in DOMAIN g.symbol_to_uid : string_find(symbol, pattern, 0) # npos}

\* the narrowing loop of find_symbols(patterns), from pattern i on
RECURSIVE narrow(_, _, _)
narrow(matches, patterns, i) ==
    IF i > Len(patterns) \/ matches = {} THEN matches
    ELSE narrow({sym \in matches : string_find(sym, patterns[i], 0) # npos},
                patterns, i + 1)

find_symbols_first_pattern(g, patterns) ==
    IF patterns = << >> THEN {}
    ELSE find_symbols_one(g, patterns[1])

\* find_symbols(patterns); the result vector is read as the set of its names
find_symbols(g, patterns) ==
    IF patterns = << >> THEN {}
    ELSE narrow(find_symbols_one(g, patterns[1]), patterns, 2)

SearchNames == {N_f, N_mf, N_cm, N_x}

Patterns == {<< >>, <<"f">>, <<"m">>, <<":", ":">>, <<"m", ":">>, <<":", "f">>}

PatternLists == UNION {[1..n -> Patterns] : n \in 0..MaxPatterns}

RECURSIVE add_symbols(_, _)
add_symbols(g, names) ==
    IF names = {} THEN g
    ELSE LET name == CHOOSE x \in names : TRUE
         IN add_symbols(Graph_add_symbol(g, name, SymbolTypeFunction).g,
                        names \ {name})

SearchInit ==
    /\ \E names \in SUBSET SearchNames, finalized \in BOOLEAN :
          call_graph = IF finalized
                       THEN CallGraph_finalize(add_symbols(EmptyCallGraph, names))
                       ELSE add_symbols(EmptyCallGraph, names)
    /\ phase = "query"
    /\ ops = 0
    /\ driver = "api"
    /\ short_to_qualified = EmptyMap
    /\ stage = "functions"
    /\ index_file = << >>
    /\ loaded = NotLoaded
    /\ query = [pc |-> "idle", op |-> "none", patterns |-> << >>, matches |-> {}]
    /\ workers = NoWorkers
    /\ string_pool = NoPool

FindSymbols ==
    /\ query.pc = "idle"
    /\ \E patterns \in PatternLists :
          query' = [pc |-> "done", op |-> "find_symbols", patterns |-> patterns,
                    matches |-> find_symbols(call_graph, patterns)]
    /\ UNCHANGED <<call_graph, phase, ops, driver, short_to_qualified, stage,
                   index_file, loaded, workers, string_pool>>

SearchSpec == SearchInit /\ [][FindSymbols]_vars

\* p occurs in s as a contiguous run of characters
IsSubstring(p, s) ==
    \E i \in 1..(Len(s) + 1) : \E j \in (i - 1)..Len(s) : SubSeq(s, i, j) = p

ContainingAll(g, patterns) ==
    {symbol \in DOMAIN g.symbol_to_uid :
        \A i \in 1..Len(patterns) : IsSubstring(patterns[i], symbol)}

\* C24 as stated: for every pattern list, find_symbols(patterns) returns
\* exactly the symbol names that contain every pattern of the list.
C24_ExactlyTheMatches ==
    query.op = "find_symbols" =>
        query.matches = ContainingAll(call_graph, query.patterns)

\* C24: for every non-empty pattern list, find_symbols(patterns) returns
\* exactly the symbol names that contain every pattern of the list as a
\* substring; for the empty list it returns no name.
C24_ExactlyTheMatchesNonEmpty ==
    query.op = "find_symbols" =>
        query.matches = IF query.patterns = << >> THEN {}
                        ELSE ContainingAll(call_graph, query.patterns)

\* two patterns narrowed the symbols: the first alone matches more names
C24_Witness ==
    /\ query.op = "find_symbols"
    /\ Len(query.patterns) = 2
    /\ query.matches # {}
    /\ query.matches # find_symbols_one(call_graph, query.patterns[1])
    /\ C24_ExactlyTheMatchesNonEmpty

\* ------------------------------------------------------------------------
\* Read operations on a lookup miss.
\* ------------------------------------------------------------------------

\* UIDs around the allocated ones: 0, the live UIDs, and two never allocated
ProbeUids(g) == 0..(g.next_uid + 1)

\* the adjacency reads of a UID the graph has no symbol for are empty
EdgeReadsMiss(g, uid) ==
    /\ get_callees(g, uid) = {}
    /\ get_callers(g, uid) = {}
    /\ get_data_sources(g, uid) = {}
    /\ get_data_sinks(g, uid) = {}

\* C25: on finalized and unfinalized graphs alike, get_uid of an unknown name
\* is INVALID_UID, get_symbol of a UID that is not a live symbol (UID 0
\* included) is the empty name, and get_callees, get_callers,
\* get_data_sources and get_data_sinks of an unknown UID are empty.
C25_ReadsMissEmpty ==
    /\ \A name \in (ApiNames \cup {N_g, N_x}) \ DOMAIN call_graph.symbol_to_uid :
           get_uid(call_graph, name) = INVALID_UID
    /\ \A uid \in ProbeUids(call_graph) \ LiveUids(call_graph) :
           /\ get_symbol(call_graph, uid) = << >>
           /\ EdgeReadsMiss(call_graph, uid)

\* the same, UID 0 set aside for get_symbol while the graph has no END node
ReadsMissEmptyButInvalidUid ==
    /\ \A name \in (ApiNames \cup {N_g, N_x}) \ DOMAIN call_graph.symbol_to_uid :
           get_uid(call_graph, name) = INVALID_UID
    /\ \A uid \in ProbeUids(call_graph) \ LiveUids(call_graph) :
           /\ (uid # INVALID_UID \/ call_graph.end_uid # INVALID_UID)
                  => get_symbol(call_graph, uid) = << >>
           /\ EdgeReadsMiss(call_graph, uid)

\* get_symbol(INVALID_UID) names the END node on a graph that has none
InvalidUidNamedEnd ==
    call_graph.end_uid = INVALID_UID
        => get_symbol(call_graph, INVALID_UID) = END_NAME

\* ------------------------------------------------------------------------
\* Queries that name a symbol the graph does not have.
\* ------------------------------------------------------------------------

Known(name) == name \in DOMAIN call_graph.symbol_to_uid

\* the query that was made names a symbol that is not in the graph
NamesUnknownSymbol ==
    \/ query.op \in {"find_paths", "find_data_flow_paths"}
          /\ (~Known(query.start_name) \/ ~Known(query.end_name))
    \/ query.op = "backtrace" /\ ~Known(query.end_name)
    \/ query.op \in {"forward_trace", "data_sources", "data_sinks"}
          /\ ~Known(query.start_name)

\* the query returned at once, with no callback and an empty result
ReturnedEmpty ==
    /\ query.pc = "done"
    /\ query.stack = << >>
    /\ query.emitted = << >>
    /\ query.names = {}

\* C26: a query that names a symbol that is not in the graph (find_paths,
\* backtrace, forward_trace, data_sources, data_sinks, find_data_flow_paths)
\* reports a diagnostic, never invokes the callback and returns an empty
\* result.
C26_UnknownSymbolDiagnosed ==
    NamesUnknownSymbol => (ReturnedEmpty /\ query.diagnostic # "none")

\* the same without the diagnostic
UnknownSymbolReturnsEmpty == NamesUnknownSymbol => ReturnedEmpty

\* the path queries report the unknown symbol
PathQueryDiagnosed ==
    (NamesUnknownSymbol /\ query.op \notin {"data_sources", "data_sinks"})
        => query.diagnostic # "none"

\* data_sources and data_sinks of an unknown symbol report nothing
FlowQuerySilent ==
    query.op \in {"data_sources", "data_sinks"} => query.diagnostic = "none"

\* ------------------------------------------------------------------------
\* Readers of the index file: intact and malformed files.
\* ------------------------------------------------------------------------

\* the graphs whose saved files are read
StreamGraph(file, call, flow, finalized) ==
    LET g0 == IF file THEN Graph_add_symbol_file(EmptyCallGraph, N_f, P_a,
                                                 SymbolTypeFunction).g
              ELSE Graph_add_symbol(EmptyCallGraph, N_f, SymbolTypeFunction).g
        g1 == IF call THEN Graph_add_call(g0, N_f, N_mf) ELSE g0
        g2 == IF flow THEN Graph_add_data_flow(g1, N_mf, N_x) ELSE g1
    IN IF finalized THEN CallGraph_finalize(g2) ELSE g2

\* the file cut off after its first k tokens
Truncated(toks, k) == SubSeq(toks, 1, k)

\* the file with the closing brace at position k written as a bracket
Misclosed(toks, k) == [toks EXCEPT ![k] = TokCloseArr]

\* the saved file, every proper prefix of it, and every wrong closing of it
FilesOf(g) ==
    LET toks == Graph_save(g)
    IN {toks} \cup {Truncated(toks, k) : k \in 0..(Len(toks) - 1)}
              \cup {Misclosed(toks, k) : k \in {i \in 1..Len(toks) : toks[i].t = "}"}}

StreamPatterns == {<< <<"f">> >>, << <<":", ":">>, <<"x">> >>}

NoStream ==
    [pc |-> "idle", op |-> "none", patterns |-> << >>, result |-> << >>, events |-> 0,
     ok |-> TRUE]

StreamInit ==
    /\ \E file \in BOOLEAN, call \in BOOLEAN, flow \in BOOLEAN, finalized \in BOOLEAN :
          /\ call_graph = StreamGraph(file, call, flow, finalized)
          /\ index_file \in FilesOf(call_graph)
    /\ phase = "saved"
    /\ ops = 0
    /\ driver = "api"
    /\ short_to_qualified = EmptyMap
    /\ stage = "functions"
    /\ loaded = NotLoaded
    /\ query = NoStream
    /\ workers = NoWorkers
    /\ string_pool = NoPool

\* a call of a streaming reader; no exception leaves it once the file is open
Streamed(op, patterns, result, events) ==
    /\ phase = "saved"
    /\ query.pc = "idle"
    /\ query' = [pc |-> "done", op |-> op, patterns |-> patterns, result |-> result,
                 events |-> events, ok |-> TRUE]
    /\ UNCHANGED <<call_graph, phase, ops, driver, short_to_qualified, stage,
                   index_file, loaded, workers, string_pool>>

StreamSearchSymbols ==
    \E doc \in {json_document(index_file)}, patterns \in StreamPatterns :
        \E r \in {stream_search_symbols(index_file, doc, patterns)} :
            Streamed("stream_search_symbols", patterns, r.matches, r.events)

StreamAllSymbols ==
    \E r \in {stream_all_symbols(index_file, json_document(index_file))} :
        Streamed("stream_all_symbols", << << >> >>, r.matches, r.events)

StreamFilePaths ==
    \E r \in {stream_file_paths(index_file, json_document(index_file))} :
        Streamed("stream_file_paths", << >>, r.paths, r.events)

StreamNext ==
    \/ Load
    \/ StreamSearchSymbols
    \/ StreamAllSymbols
    \/ StreamFilePaths

StreamSpec == StreamInit /\ [][StreamNext]_vars

Intact == index_file = Graph_save(call_graph)

\* C27: every reader of the index file (Graph::load in any mode,
\* stream_search_symbols, stream_all_symbols, stream_file_paths) fails with
\* an error on a structurally malformed file; none returns a result as
\* though it had succeeded.
C27_MalformedFileIsError ==
    ~Intact =>
        /\ loaded.state # "none" => loaded.state = "error"
        /\ query.pc = "done" => ~query.ok

\* Graph::load alone: every mode fails on every malformed file
LoadOfMalformedFails == (~Intact /\ loaded.state # "none") => loaded.state = "error"

\* a streaming search of a file cut inside its UIDs object returned matches
PartialStreamResult ==
    ~(/\ ~Intact
      /\ query.op = "stream_all_symbols"
      /\ query.ok
      /\ Len(query.result) = 1
      /\ Cardinality(DOMAIN call_graph.symbol_to_uid) > 1)

\* the position of the brace that closes the flat object after the key
RegionEnd(toks, key) ==
    LET at == CHOOSE i \in 1..Len(toks) : toks[i] = TokKey(key)
    IN CHOOSE k \in (at + 2)..Len(toks) :
          /\ toks[k].t = "}"
          /\ \A j \in (at + 2)..(k - 1) : toks[j].t # "}"

\* C28: on a saved file each streaming handler stops the parse at the
\* closing brace of its region (the UIDs object for stream_search_symbols and
\* stream_all_symbols, the file_paths object for stream_file_paths): no
\* event after it is delivered.
C28_StreamStopsAtRegionEnd ==
    (Intact /\ query.pc = "done") =>
        query.events = IF query.op = "stream_file_paths"
                       THEN RegionEnd(index_file, Key.file_paths)
                       ELSE RegionEnd(index_file, Key.UIDs)

\* the symbol search alone stops at the end of the UIDs object
SearchStopsAtUidsEnd ==
    (Intact /\ query.op \in {"stream_search_symbols", "stream_all_symbols"}) =>
        /\ query.events = RegionEnd(index_file, Key.UIDs)
        /\ {query.result[i] : i \in 1..Len(query.result)}
               \subseteq DOMAIN call_graph.symbol_to_uid

\* stream_file_paths reads to the end of the file exactly when no data-flow
\* source precedes the file_paths section, and then returns no path
FilePathsNeedDataFlow ==
    (Intact /\ query.op = "stream_file_paths") =>
        IF call_graph.data_flow_map = EmptyMap
        THEN query.events = Len(index_file) /\ query.result = << >>
        ELSE query.events = RegionEnd(index_file, Key.file_paths)

\* the last section a partial mode loads
LastLoadedSection(mode) ==
    IF mode = "SymbolsOnly" THEN Key.symbol_types ELSE Key.symbol_files

\* C29: Graph::load in a partial mode (SymbolsOnly, WithPaths) gives up
\* parsing once the sections of its mode have been read: no event of a later
\* section is delivered.
C29_PartialLoadStopsEarly ==
    (Intact /\ loaded.state # "none" /\ loaded.mode \in {"SymbolsOnly", "WithPaths"}) =>
        loaded.events <= RegionEnd(index_file, LastLoadedSection(loaded.mode))

\* every load that succeeds has had every token of the file delivered
LoadReadsWholeFile == loaded.state = "ok" => loaded.events = Len(index_file)

\* ------------------------------------------------------------------------
\* Types at the ends of data-flow edges.
\* ------------------------------------------------------------------------

\* C30: in every graph produced by indexing, the destination of every
\* data-flow edge is a symbol of type Variable, whatever the records are and
\* however they fall into batches.
C30_FlowDestinationIsVariable ==
    driver = "indexer" =>
        \A source \in DOMAIN call_graph.data_flow_map :
            \A dest \in call_graph.data_flow_map[source] :
                get_type(call_graph, dest) = SymbolTypeVariable

\* the edges of a step are new: the destination of every data-flow edge an
\* indexing step adds has type Variable when the step is done
NewFlowDestinationIsVariable ==
    [][driver = "indexer" =>
          \A source \in DOMAIN call_graph'.data_flow_map :
              \A dest \in call_graph'.data_flow_map[source] \
                            get_data_sinks(call_graph, source) :
                  get_type(call_graph', dest) = SymbolTypeVariable]_vars


\* ---------------------------------- StringPool: strings_ and the views on it
\* intern and find on the members as they are declared: strings_ is a
\* std::vector<std::string> with its capacity, and a key of index_ is a
\* std::string_view on the characters of an element of strings_.  A short
\* string keeps its characters inside the string object, which lies in the
\* vector's buffer; a long one keeps them in a heap block of its own.  When
\* the vector takes a new buffer the elements are moved and the old buffer is
\* freed: the view of a short string then points into freed memory
\* (valid = FALSE), the view of a long one still points at its heap block.
N_sym == <<"a", "_", "l", "o", "n", "g", "_", "s", "y", "m", "b", "o", "l",
           "_", "n", "a", "m", "e">>

\* the names std::string stores inside the string object
LocalStrings == {N_f, N_g, END_NAME}

\* the vector moves to a buffer of new_capacity elements
reallocate(pool, new_capacity) ==
    [pool EXCEPT
        !.capacity = new_capacity,
        !.index_ = {[e EXCEPT !.valid = @ /\ e.key \notin LocalStrings] : e \in @}]

\* index_.find(str): the values an equal key can be found with, and SIZE_MAX
\* for end().  The comparison with a view into freed memory reads whatever
\* the memory holds now: the old characters (found) or something else (not
\* found).
index_find(pool, str) ==
    {e.value : e \in {d \in pool.index_ : d.key = str}}
        \cup (IF \E e \in pool.index_ : e.key = str /\ e.valid THEN {} ELSE {SIZE_MAX})

\* strings_.push_back(str): a full vector doubles its buffer first
push_back(pool, str) ==
    LET p == IF Len(pool.strings_) < pool.capacity THEN pool
             ELSE reallocate(pool, IF pool.capacity = 0 THEN 1 ELSE 2 * pool.capacity)
    IN [p EXCEPT !.strings_ = Append(@, str)]

\* index_[strings_.back()] = idx: operator[] looks the key up as find does
\* and assigns to the entry it finds, or inserts the view of the new element
index_assign(pool, str, idx) ==
    {[pool EXCEPT !.index_ = (@ \ {e}) \cup {[e EXCEPT !.value = idx]}] :
        e \in {d \in pool.index_ : d.key = str}}
        \cup {[pool EXCEPT !.index_ = @ \cup {[key |-> str, value |-> idx, valid |-> TRUE]}]}

\* StringPool::intern: every outcome [pool, idx] the call can have
intern(pool, str) ==
    UNION {IF it # SIZE_MAX THEN {[pool |-> pool, idx |-> it]}
           ELSE LET idx == Len(pool.strings_)
                IN {[pool |-> p, idx |-> idx] :
                       p \in index_assign(push_back(pool, str), str, idx)} :
              it \in index_find(pool, str)}

\* StringPool::find: every outcome
find(pool, str) == index_find(pool, str)

\* StringPool::shrink_to_fit: strings_.shrink_to_fit() moves the elements to
\* a buffer of exactly size() elements when the capacity is larger
shrink_to_fit(pool) ==
    IF pool.capacity > Len(pool.strings_) THEN reallocate(pool, Len(pool.strings_))
    ELSE pool

\* strings_.size() a pool is grown to
MaxPoolSize == 4

PoolNames == {N_f, N_g, N_sym}

PoolInit ==
    /\ call_graph = EmptyCallGraph
    /\ phase = "build"
    /\ ops = 0
    /\ driver = "api"
    /\ short_to_qualified = EmptyMap
    /\ stage = "functions"
    /\ index_file = << >>
    /\ loaded = NotLoaded
    /\ query = NoQuery
    /\ workers = NoWorkers
    /\ string_pool = NoPool

PoolUnchanged ==
    UNCHANGED <<call_graph, phase, ops, driver, short_to_qualified, stage,
                index_file, loaded, query, workers>>

\* a call of intern
Intern ==
    /\ Len(string_pool.pool.strings_) < MaxPoolSize
    /\ \E str \in PoolNames :
          \E r \in intern(string_pool.pool, str) :
              string_pool' = [pool |-> r.pool, op |-> "intern", str |-> str, idx |-> r.idx]
    /\ PoolUnchanged

\* a call of find
Find ==
    /\ \E str \in PoolNames :
          \E it \in find(string_pool.pool, str) :
              string_pool' = [string_pool EXCEPT !.op = "find", !.str = str, !.idx = it]
    /\ PoolUnchanged

\* a call of shrink_to_fit
ShrinkToFit ==
    /\ string_pool' = [string_pool EXCEPT !.pool = shrink_to_fit(@), !.op = "shrink_to_fit",
                            !.str = << >>, !.idx = SIZE_MAX]
    /\ PoolUnchanged

PoolNext == Intern \/ Find \/ ShrinkToFit

PoolSpec == PoolInit /\ [][PoolNext]_vars

\* C31: intern(s) returns the index previously returned for s whenever s was
\* interned before, and otherwise appends s and returns the new last index,
\* after any number of interns (also ones that make the backing array grow)
\* and after shrink_to_fit; find(s) never inserts
C31_InternReturnsSameIndex ==
    [][/\ string_pool'.op = "intern" =>
              IF string_pool'.str \in Range(string_pool.pool.strings_)
              THEN /\ string_pool'.pool.strings_ = string_pool.pool.strings_
                   /\ StringPool_get(string_pool.pool, string_pool'.idx) = string_pool'.str
                   /\ \A i \in 0..(string_pool'.idx - 1) :
                          StringPool_get(string_pool.pool, i) # string_pool'.str
              ELSE /\ string_pool'.pool.strings_ = Append(string_pool.pool.strings_, string_pool'.str)
                   /\ string_pool'.idx = Len(string_pool.pool.strings_)
       /\ string_pool'.op = "find" => string_pool'.pool.strings_ = string_pool.pool.strings_
      ]_vars

\* find and intern leave strings_ and index_ alone when they find the string
FindNeverInserts ==
    [][string_pool'.op = "find" => string_pool'.pool = string_pool.pool]_vars

\* while the vector has not changed its buffer since the first insertion
\* (every view is valid), and for a string too long for the string object,
\* intern returns the index it returned before
InternStableWithoutMove ==
    [][(/\ string_pool'.op = "intern"
        /\ string_pool'.str \in Range(string_pool.pool.strings_)
        /\ \/ \A e \in string_pool.pool.index_ : e.valid
           \/ string_pool'.str \notin LocalStrings)
          => /\ string_pool'.pool = string_pool.pool
             /\ StringPool_get(string_pool.pool, string_pool'.idx) = string_pool'.str]_vars

\* an index intern returns, and one find returns, holds the string asked for
ReturnedIndexHoldsString ==
    (string_pool.op \in {"intern", "find"} /\ string_pool.idx # SIZE_MAX)
        => StringPool_get(string_pool.pool, string_pool.idx) = string_pool.str

\* ------------------- Indexer::index: batches, slices, threads and mutexes
\* files.size() of a run
MaxFiles == 3

\* the batch size (10000 in the source, 5000 and 2000 for large
\* repositories) and the size a thread-local vector must exceed to be
\* flushed inside the loop (2000, 10000 and 5000 in the source), scaled to
\* the file counts of the model
BATCH_SIZE == 2
FlushThreshold == 1

Streams == <<"functions", "calls", "variables">>

\* what parse_file yields for a file: false, or true with its records
ParsedFiles ==
    {[ok |-> FALSE, functions |-> << >>, calls |-> << >>, variables |-> << >>],
     [ok |-> TRUE, functions |-> << >>, calls |-> << >>, variables |-> << >>],
     [ok |-> TRUE, functions |-> <<[qualified_name |-> N_mf, file_path |-> P_a],
                                   [qualified_name |-> N_nf, file_path |-> P_a]>>,
      calls |-> <<[caller_name |-> N_mf, callee_name |-> N_f]>>,
      variables |-> <<[qualified_name |-> N_cm, containing_func |-> N_mf,
                       value_source |-> N_f, from_function_call |-> TRUE]>>]}

Minimum(a, b) == IF a < b THEN a ELSE b

total_batches(n) == (n + BATCH_SIZE - 1) \div BATCH_SIZE

\* batch_start and batch_end of a batch
batch_range(n, batch) ==
    [batch_start |-> batch * BATCH_SIZE,
     batch_end |-> Minimum(batch * BATCH_SIZE + BATCH_SIZE, n)]

files_per_thread_floor(batch_file_count, num_threads) ==
    batch_file_count \div num_threads

files_per_thread(batch_file_count, num_threads) ==
    (batch_file_count + num_threads - 1) \div num_threads

\* a thread at the head of worker_parse_files
NewWorker(start_idx, end_idx) ==
    [start_idx |-> start_idx, end_idx |-> end_idx, i |-> start_idx,
     pc |-> "next_file", stream |-> 1,
     local |-> [functions |-> << >>, calls |-> << >>, variables |-> << >>]]

\* the threads the loop "for t < num_threads" creates from t on
RECURSIVE spawn(_, _, _)
spawn(range, num_threads, t) ==
    LET per_thread == files_per_thread(range.batch_end - range.batch_start, num_threads)
        start_idx == range.batch_start + t * per_thread
        end_idx == Minimum(start_idx + per_thread, range.batch_end)
    IN IF t >= num_threads \/ start_idx >= range.batch_end THEN << >>
       ELSE <<NewWorker(start_idx, end_idx)>> \o spawn(range, num_threads, t + 1)

Unlocked == [m \in {"functions", "calls", "variables", "output"} |-> 0]

NoRecords == [functions |-> << >>, calls |-> << >>, variables |-> << >>]

\* std::lock_guard: the constructor (the mutex is free) and the destructor
lock(mutex, m, t) == [mutex EXCEPT ![m] = t]

unlock_never(mutex, m) == mutex

unlock(mutex, m) == [mutex EXCEPT ![m] = 0]

\* all_X.insert(all_X.end(), move(local_X.begin()), move(local_X.end()))
move_insert_twice(all, s, local) == [all EXCEPT ![s] = @ \o local[s] \o local[s]]

move_insert(all, s, local) == [all EXCEPT ![s] = @ \o local[s]]

\* every thread of the batch has returned: the loop of t.join() ends
joined_first(threads) == threads = << >> \/ threads[1].pc = "done"

joined(threads) == \A t \in DOMAIN threads : threads[t].pc = "done"

ParseInit ==
    /\ \E n \in 0..MaxFiles, num_threads \in 1..NumThreads :
          \E files \in [1..n -> ParsedFiles] :
              /\ workers = [files |-> files, num_threads |-> num_threads, batch |-> 0,
                            threads |-> << >>, mutex |-> Unlocked, all |-> NoRecords,
                            visits |-> [i \in 1..n |-> 0]]
              /\ phase = IF n = 0 THEN "indexed" ELSE "spawn"
    /\ call_graph = EmptyCallGraph
    /\ ops = 0
    /\ driver = "indexer"
    /\ short_to_qualified = EmptyMap
    /\ stage = "functions"
    /\ index_file = << >>
    /\ loaded = NotLoaded
    /\ query = NoQuery
    /\ string_pool = NoPool

ParseUnchanged ==
    UNCHANGED <<ops, driver, index_file, loaded, query, string_pool>>

\* Indexer::index: the vectors and mutexes of the batch, and its threads
Spawn ==
    /\ phase = "spawn"
    /\ workers' = [workers EXCEPT
           !.threads = spawn(batch_range(Len(workers.files), workers.batch),
                             workers.num_threads, 0),
           !.mutex = Unlocked,
           !.all = NoRecords]
    /\ phase' = "parse"
    /\ UNCHANGED <<call_graph, short_to_qualified, stage>>
    /\ ParseUnchanged

\* the thread after the stream it has dealt with: the next stream, or the
\* next file, or the end of worker_parse_files after the final flush
Advance_stream(w) ==
    IF w.stream < Len(Streams) THEN [w EXCEPT !.stream = @ + 1]
    ELSE IF w.i >= w.end_idx THEN [w EXCEPT !.pc = "done"]
    ELSE [w EXCEPT !.pc = "next_file", !.i = @ + 1, !.stream = 1]

\* a step of thread t in worker_parse_files
WorkerStep(t) ==
    /\ phase = "parse"
    /\ t \in DOMAIN workers.threads
    /\ \E w \in {workers.threads[t]} :
          \* parse_file(files[i]) and "Accumulate locally"
          \/ /\ w.pc = "next_file" /\ w.i < w.end_idx
             /\ \E f \in {workers.files[w.i + 1]} :
                   workers' = [workers EXCEPT
                       !.visits[w.i + 1] = @ + 1,
                       !.threads[t] =
                           IF f.ok
                           THEN [w EXCEPT !.pc = "print",
                                          !.local = [s \in DOMAIN @ |-> @[s] \o f[s]]]
                           ELSE [w EXCEPT !.pc = "flush"]]
          \* the loop over the slice has ended: "Final flush"
          \/ /\ w.pc = "next_file" /\ w.i >= w.end_idx
             /\ workers' = [workers EXCEPT !.threads[t].pc = "flush"]
          \* lock_guard lock(output_mutex_)
          \/ /\ w.pc = "print" /\ workers.mutex["output"] = 0
             /\ workers' = [workers EXCEPT !.mutex = lock(@, "output", t),
                                           !.threads[t].pc = "printing"]
          \/ /\ w.pc = "printing"
             /\ workers' = [workers EXCEPT !.mutex = unlock(@, "output"),
                                           !.threads[t].pc = "flush"]
          \* if (local_X.size() > threshold), after the loop if (!local_X.empty())
          \/ /\ w.pc = "flush"
             /\ Len(w.local[Streams[w.stream]])
                    <= (IF w.i >= w.end_idx THEN 0 ELSE FlushThreshold)
             /\ workers' = [workers EXCEPT !.threads[t] = Advance_stream(w)]
          \/ /\ w.pc = "flush"
             /\ Len(w.local[Streams[w.stream]])
                    > (IF w.i >= w.end_idx THEN 0 ELSE FlushThreshold)
             /\ workers.mutex[Streams[w.stream]] = 0
             /\ workers' = [workers EXCEPT !.mutex = lock(@, Streams[w.stream], t),
                                           !.threads[t].pc = "insert"]
          \* the insert under the mutex, then local_X.clear()
          \/ /\ w.pc = "insert"
             /\ workers' = [workers EXCEPT
                    !.all = move_insert(@, Streams[w.stream], w.local),
                    !.mutex = unlock(@, Streams[w.stream]),
                    !.threads[t] = Advance_stream(
                        [w EXCEPT !.pc = "flush", !.local[Streams[w.stream]] = << >>])]
    /\ UNCHANGED <<call_graph, phase, short_to_qualified, stage>>
    /\ ParseUnchanged

\* Indexer::index: for (auto &t : threads) t.join()
Join ==
    /\ phase = "parse"
    /\ joined(workers.threads)
    /\ phase' = "populate"
    /\ UNCHANGED <<call_graph, short_to_qualified, stage, workers>>
    /\ ParseUnchanged

\* Indexer::index: "Process this batch", one of its three loops at a time,
\* then the next batch or the return
Populate ==
    /\ phase = "populate"
    /\ \/ /\ stage = "functions"
          /\ \E r \in {index_functions(call_graph, short_to_qualified,
                                       workers.all["functions"])} :
                /\ call_graph' = r.g
                /\ short_to_qualified' = r.map
          /\ stage' = "calls"
          /\ UNCHANGED <<phase, workers>>
       \/ /\ stage = "calls"
          /\ call_graph' = index_calls(call_graph, short_to_qualified, workers.all["calls"])
          /\ stage' = "variables"
          /\ UNCHANGED <<phase, short_to_qualified, workers>>
       \/ /\ stage = "variables"
          /\ call_graph' = index_variables(call_graph, short_to_qualified,
                                           workers.all["variables"])
          /\ stage' = "functions"
          /\ workers' = [workers EXCEPT !.batch = @ + 1, !.threads = << >>,
                                        !.all = NoRecords]
          /\ phase' = IF workers.batch + 1 < total_batches(Len(workers.files))
                      THEN "spawn" ELSE "indexed"
          /\ UNCHANGED short_to_qualified
    /\ ParseUnchanged

ParseNext == Spawn \/ (\E t \in 1..NumThreads : WorkerStep(t)) \/ Join \/ Populate

ParseSpec == ParseInit /\ [][ParseNext]_vars

\* the scheduler lets every worker thread that can take a step take one
ParseFairSpec == ParseSpec /\ \A t \in 1..NumThreads : WF_vars(WorkerStep(t))

\* a thread of the batch is inside worker_parse_files
WorkerRunning == \E t \in DOMAIN workers.threads : workers.threads[t].pc # "done"

\* C32: the graph is mutated only by the thread running Indexer::index and
\* only while no worker thread is running: every worker of a batch has been
\* joined before a record of the batch is inserted into the graph, and no
\* worker of the next batch is started before the population of the batch
\* has finished
C32_GraphMutatedOnlyBetweenBatches ==
    [][/\ (call_graph' # call_graph \/ short_to_qualified' # short_to_qualified)
              => (phase = "populate" /\ ~WorkerRunning)
       /\ (workers.threads = << >> /\ workers'.threads # << >>)
              => (stage = "functions" /\ workers.all = NoRecords
                  /\ phase = "spawn" /\ call_graph' = call_graph)
      ]_vars

C32_Witness ==
    /\ phase = "indexed"
    /\ workers.batch = 2 /\ workers.num_threads = 2
    /\ DOMAIN call_graph.call_map # {}
    /\ DOMAIN call_graph.data_flow_map # {}

\* the files of the batch being parsed or populated
BatchFiles ==
    LET range == batch_range(Len(workers.files), workers.batch)
    IN {i \in 1..Len(workers.files) : range.batch_start < i /\ i <= range.batch_end}

Count(seq, r) == Cardinality({k \in DOMAIN seq : seq[k] = r})

RECURSIVE Sum(_, _)
Sum(f, S) == IF S = {} THEN 0
             ELSE LET x == CHOOSE y \in S : TRUE IN f[x] + Sum(f, S \ {x})

\* how often the files of the batch that parse_file accepted yield record r
Produced(s, r) ==
    Sum([i \in BatchFiles |-> IF workers.files[i].ok THEN Count(workers.files[i][s], r)
                              ELSE 0], BatchFiles)

\* C33: after all workers of a batch have been joined, each global
\* accumulator contains every record produced by every successfully parsed
\* file of the batch exactly once, none lost and none duplicated, for every
\* interleaving of the workers and however many threshold flushes occurred
C33_AccumulatorsHoldEachRecordOnce ==
    (phase = "populate" /\ stage = "functions") =>
        \A s \in Range(Streams) :
            \A r \in Range(workers.all[s])
                       \cup UNION {Range(workers.files[i][s]) : i \in BatchFiles} :
                Count(workers.all[s], r) = Produced(s, r)

\* two threads, each with a file of two functions and one call: each has
\* flushed its functions inside the loop and its calls after it
C33_Witness ==
    /\ phase = "populate" /\ stage = "functions"
    /\ Len(workers.threads) = 2
    /\ Len(workers.all["functions"]) = 4
    /\ Len(workers.all["calls"]) = 2

\* the slices of the threads are contiguous, not empty, and cover the range
SlicesPartition(threads, range) ==
    /\ threads # << >>
    /\ threads[1].start_idx = range.batch_start
    /\ threads[Len(threads)].end_idx = range.batch_end
    /\ \A t \in DOMAIN threads :
          /\ threads[t].start_idx < threads[t].end_idx
          /\ t < Len(threads) => threads[t].end_idx = threads[t + 1].start_idx

\* the batches are contiguous, not empty, and cover the n files
BatchesPartition(n) ==
    /\ n > 0 => /\ batch_range(n, 0).batch_start = 0
                /\ batch_range(n, total_batches(n) - 1).batch_end = n
    /\ \A batch \in 0..(total_batches(n) - 1) :
          /\ batch_range(n, batch).batch_start < batch_range(n, batch).batch_end
          /\ batch + 1 < total_batches(n) =>
                 batch_range(n, batch).batch_end = batch_range(n, batch + 1).batch_start

\* C34: every discovered file is parsed by exactly one worker in exactly one
\* batch: the batches are contiguous ranges that partition the file list,
\* and within a batch the worker slices are contiguous, pairwise disjoint
\* and cover the batch, for every file count and thread count, also with
\* more threads than files
C34_EveryFileParsedOnce ==
    /\ \A i \in DOMAIN workers.visits : workers.visits[i] <= 1
    /\ phase = "indexed" => \A i \in DOMAIN workers.visits : workers.visits[i] = 1
    /\ BatchesPartition(Len(workers.files))
    /\ phase = "parse" =>
           /\ SlicesPartition(workers.threads,
                              batch_range(Len(workers.files), workers.batch))
           /\ \A i \in DOMAIN workers.visits :
                  workers.visits[i] = 1 =>
                      \/ i <= batch_range(Len(workers.files), workers.batch).batch_start
                      \/ \E t \in DOMAIN workers.threads :
                            /\ workers.threads[t].start_idx < i
                            /\ i <= workers.threads[t].i + 1

\* three files in two batches parsed by two threads, the second batch with
\* more threads than files
C34_Witness ==
    /\ phase = "indexed"
    /\ Len(workers.files) = MaxFiles
    /\ workers.num_threads = NumThreads
    /\ workers.batch = total_batches(MaxFiles)

\* the mutexes thread t holds
Held(t) == {m \in DOMAIN workers.mutex : workers.mutex[m] = t}

HoldsAtMostOne == \A t \in 1..NumThreads : Cardinality(Held(t)) <= 1

\* C39: a worker thread holds at most one of the mutexes (functions, calls,
\* variables, output) at any time and releases it before it acquires
\* another, so the workers of a batch cannot deadlock and every worker
\* terminates once its slice has been processed
C39_OneMutexAtATime ==
    /\ []HoldsAtMostOne
    /\ [][\A t \in 1..NumThreads : Held(t) # {} => Held(t)' \subseteq Held(t)]_vars
    /\ (phase = "parse") ~> (phase = "parse" /\ ~WorkerRunning)

\* a thread waits for a mutex that another thread holds
C39_Witness ==
    \E t \in DOMAIN workers.threads, u \in DOMAIN workers.threads :
        /\ t # u
        /\ workers.threads[t].pc = "flush" /\ workers.threads[u].pc = "insert"
        /\ workers.threads[t].stream = workers.threads[u].stream
        /\ Len(workers.threads[t].local[Streams[workers.threads[t].stream]]) > FlushThreshold

\* ------------------------------- Graph::load, one parser event at a time
\* the position of the token that ends the value starting at position at
RECURSIVE ValueEnd(_, _, _)
ValueEnd(toks, at, open) ==
    LET now == IF toks[at].t \in {"{", "["} THEN open + 1
               ELSE IF toks[at].t \in {"}", "]"} THEN open - 1
               ELSE open
    IN IF now = 0 THEN at ELSE ValueEnd(toks, at + 1, now)

\* the entry "key": value of a saved file, as its tokens
Entry(toks, key) ==
    LET at == CHOOSE i \in 1..Len(toks) : toks[i] = TokKey(key)
    IN SubSeq(toks, at, ValueEnd(toks, at + 1, 0))

\* Graph::to_json().dump(): the entries of Graph::save in the order of an
\* nlohmann::json object, which keeps its keys sorted, at the top level and
\* inside metadata ("UIDs" sorts before the lower-case keys)
Graph_to_json(g) ==
    LET toks == Graph_save(g)
        metadata == FlatMap(LAMBDA key : Entry(toks, key),
                            <<Key.UIDs, Key.end_uid, Key.num_files, Key.num_functions,
                              Key.num_symbols, Key.num_variables, Key.version>>)
    IN <<TokOpenObj>>
       \o FlatMap(LAMBDA key : Entry(toks, key),
                  <<Key.call_mapping, Key.data_flow, Key.file_paths, Key.file_symbols>>)
       \o <<TokKey(Key.metadata), TokOpenObj>> \o metadata \o <<TokCloseObj>>
       \o FlatMap(LAMBDA key : Entry(toks, key),
                  <<Key.path_trie, Key.symbol_files, Key.symbol_types>>)
       \o <<TokCloseObj>>

\* an index file written by save or by to_json().dump(), by this build or
\* by one of an incompatible schema version, is on disk and Graph::load has
\* created its handler
SaxInit ==
    /\ \E file \in BOOLEAN, call \in BOOLEAN, flow \in BOOLEAN, finalized \in BOOLEAN :
          call_graph = StreamGraph(file, call, flow, finalized)
    /\ \E version \in {INDEX_SCHEMA_VERSION, VersionString(0, 9, 0)} :
          index_file \in {WithVersion(Graph_save(call_graph), version),
                          WithVersion(Graph_to_json(call_graph), version)}
    /\ \E mode \in LoadModes :
          loaded = [state |-> "parsing", mode |-> mode, graph |-> EmptyCallGraph,
                    events |-> 0, handler |-> NewHandler(mode)]
    /\ phase = "saved"
    /\ ops = 0
    /\ driver = "api"
    /\ short_to_qualified = EmptyMap
    /\ stage = "functions"
    /\ query = NoQuery
    /\ workers = NoWorkers
    /\ string_pool = NoPool

\* json::sax_parse delivers the next token of the file to the handler
SaxEvent ==
    /\ loaded.state = "parsing"
    /\ \E h \in {sax_event(loaded.handler, index_file[loaded.events + 1])} :
          loaded' = [state |-> IF h.thrown THEN "error"
                               ELSE IF loaded.events + 1 = Len(index_file) THEN "ok"
                               ELSE "parsing",
                     mode |-> loaded.mode, graph |-> h.graph,
                     events |-> loaded.events + 1, handler |-> h]
    /\ UNCHANGED <<call_graph, phase, ops, driver, short_to_qualified, stage,
                   index_file, query, workers, string_pool>>

SaxSpec == SaxInit /\ [][SaxEvent]_vars

\* the objects open after the first i tokens of the file
ObjectDepth(toks, i) ==
    Cardinality({k \in 1..i : toks[k].t = "{"}) - Cardinality({k \in 1..i : toks[k].t = "}"})

\* the section the first i tokens end in: that of the last top-level key
SectionAt(toks, i) ==
    LET keys == {k \in 1..i : toks[k].t = "key" /\ ObjectDepth(toks, k) = 1}
    IN IF keys = {} THEN "None"
       ELSE SectionOfKey[toks[CHOOSE k \in keys : \A j \in keys : j <= k].text]

\* after i tokens the parser is inside the object of a section the mode skips
InSkippedSection(toks, i, mode) ==
    /\ ObjectDepth(toks, i) >= 2
    /\ should_skip_section(mode, SectionAt(toks, i))

\* token i is the closing brace of a section the mode skips
ClosesSkippedSection(toks, i, mode) ==
    /\ i >= 1 /\ toks[i].t = "}"
    /\ ObjectDepth(toks, i) = 1
    /\ should_skip_section(mode, SectionAt(toks, i))

\* C35: while Graph::load is inside a section that its load mode skips, no
\* parser event changes the graph; when the closing brace of that section
\* has been consumed skip_depth is 0 and depth is 1 again, so the next
\* top-level section is recognised and processed normally, whatever objects
\* and arrays the skipped section nests
C35_SkippedSectionLeavesNoTrace ==
    /\ [][InSkippedSection(index_file, loaded.events, loaded.mode)
              => loaded'.graph = loaded.graph]_vars
    /\ [](/\ ClosesSkippedSection(index_file, loaded.events, loaded.mode)
              => (loaded.handler.skip_depth = 0 /\ loaded.handler.depth = 1)
          /\ (/\ loaded.events >= 1
              /\ index_file[loaded.events].t = "key"
              /\ ObjectDepth(index_file, loaded.events) = 1)
              => loaded.handler.current_section
                     = SectionOfKey[index_file[loaded.events].text]
          /\ loaded.state = "ok" =>
                 /\ loaded.graph.symbol_types = call_graph.symbol_types
                 /\ loaded.mode # "SymbolsOnly"
                        => FileView(loaded.graph) = FileView(call_graph)
                 /\ loaded.mode = "Full"
                        => /\ loaded.graph.call_map = call_graph.call_map
                           /\ loaded.graph.data_flow_map = call_graph.data_flow_map)

\* a WithPaths load of a to_json file has skipped call_mapping and data_flow
\* (arrays) and path_trie (nested objects and an array) and has loaded the
\* sections after them
C35_Witness ==
    /\ loaded.state = "ok" /\ loaded.mode = "WithPaths"
    /\ index_file = Graph_to_json(call_graph)
    /\ call_graph.call_map # EmptyMap /\ call_graph.data_flow_map # EmptyMap
    /\ call_graph.symbol_to_file # EmptyMap
    /\ loaded.graph.call_map = EmptyMap
    /\ loaded.graph.symbol_to_file = call_graph.symbol_to_file
    /\ loaded.graph.symbol_types = call_graph.symbol_types

\* the file Graph::save writes for the graph and the schema version of the
\* file being read, and its load in the mode of the load in progress
SavedOrder == WithVersion(Graph_save(call_graph), FileVersion)

LoadOfSavedOrder == Graph_load(SavedOrder, json_document(SavedOrder), loaded.mode)

\* C40: the graph produced by the streaming loader does not depend on the
\* order of the keys inside the metadata object: an index in which UIDs
\* precedes end_uid, version or the count fields loads to the same symbol
\* table and end_uid, and undergoes the same version check, as one in which
\* UIDs comes last
C40_MetadataKeyOrderIrrelevant ==
    loaded.state \in {"ok", "error"} =>
        /\ (loaded.state = "ok") = LoadOfSavedOrder.ok
        /\ loaded.state = "ok" =>
               /\ loaded.graph.symbol_to_uid = LoadOfSavedOrder.graph.symbol_to_uid
               /\ loaded.graph.end_uid = LoadOfSavedOrder.graph.end_uid

\* what happens instead: after the UIDs object the handler stays in section
\* UIDs, so a file with UIDs first loads without a version check, end_uid
\* stays INVALID_UID, and the number entries of metadata become symbols
UIDsFirstMetadataBecomesSymbols ==
    (loaded.state \in {"ok", "error"} /\ index_file # SavedOrder) =>
        /\ loaded.state = "ok"
        /\ loaded.graph.end_uid = INVALID_UID
        /\ {Key.end_uid, Key.num_files, Key.num_functions, Key.num_symbols,
            Key.num_variables} \subseteq DOMAIN loaded.graph.symbol_to_uid
        /\ \A name \in DOMAIN call_graph.symbol_to_uid :
               loaded.graph.symbol_to_uid[name] = call_graph.symbol_to_uid[name]

\* the event-by-event load of a file in the order of save is Graph::load
SavedOrderLoadsAsBefore ==
    (loaded.state \in {"ok", "error"} /\ index_file = SavedOrder) =>
        /\ (loaded.state = "ok") = LoadOfSavedOrder.ok
        /\ loaded.state = "ok" => loaded.graph = LoadOfSavedOrder.graph

\* the paths of the file table of a graph
FilePathsOf(g) == DOMAIN g.filepath_to_uid

\* C36: for every index written by save, stream_file_paths returns exactly
\* the paths of the index's file_paths section, the same set as the file
\* table of a Full load, however many entries the sections written before it
\* (symbol_types, call_mapping, data_flow) contain, also when call_mapping or
\* data_flow is empty
C36_StreamFilePathsAreTheFileTable ==
    (Intact /\ query.op = "stream_file_paths") =>
        /\ Range(query.result) = FilePathsOf(call_graph)
        /\ Range(query.result)
               = FilePathsOf(Graph_load(index_file, json_document(index_file), "Full").graph)

\* stream_file_paths returns the paths of the file table when the data_flow
\* section has an entry, and never a string that is no path of the table
FilePathsRightAfterDataFlow ==
    (Intact /\ query.op = "stream_file_paths") =>
        /\ Range(query.result) \subseteq FilePathsOf(call_graph)
        /\ call_graph.data_flow_map # EmptyMap
               => Range(query.result) = FilePathsOf(call_graph)

\* the graph main loads for a search that does not take the streaming route
LoadedForSearch == Graph_load(index_file, json_document(index_file), "WithPaths").graph

\* C37: for every saved index and every pattern list,
\* stream_search_symbols(file, patterns) returns the same set of symbol names
\* as QueryEngine::find_symbols(patterns) on the graph loaded from that file:
\* a search gives the same matches on the streaming route and on the other
C37_StreamSearchIsFindSymbols ==
    (Intact /\ query.op = "stream_search_symbols") =>
        Range(query.result) = find_symbols(LoadedForSearch, query.patterns)

\* with one pattern the two routes agree; with several the streaming route
\* returns the names that contain any of them, find_symbols those that
\* contain all of them
StreamSearchMatchesAnyPattern ==
    (Intact /\ query.op = "stream_search_symbols") =>
        /\ Range(query.result) =
               {name \in DOMAIN call_graph.symbol_to_uid :
                    \E i \in 1..Len(query.patterns) :
                        string_find(name, query.patterns[i], 0) # npos}
        /\ find_symbols(LoadedForSearch, query.patterns) \subseteq Range(query.result)
        /\ Len(query.patterns) = 1 =>
               Range(query.result) = find_symbols(LoadedForSearch, query.patterns)

\* C38: the two file tables stay consistent under any sequence of add_symbol
\* calls with paths: a symbol has at most one owning file, a symbol UID
\* appears in the owned-symbol list of file f exactly when its owning file is
\* f, and it appears in that list at most once
C38_FileTablesConsistent ==
    \A f \in DOMAIN call_graph.file_to_symbols :
        \A uid \in Range(call_graph.file_to_symbols[f])
                     \cup DOMAIN call_graph.symbol_to_file :
            /\ uid \in Range(call_graph.file_to_symbols[f])
                   <=> (uid \in DOMAIN call_graph.symbol_to_file
                        /\ call_graph.symbol_to_file[uid] = f)
            /\ Cardinality({k \in DOMAIN call_graph.file_to_symbols[f] :
                               call_graph.file_to_symbols[f][k] = uid}) <= 1

\* what the tables do keep: the list of a symbol's owning file holds the
\* symbol, and every symbol in a list has an owning file
OwnerListsHoldTheirSymbols ==
    /\ \A uid \in DOMAIN call_graph.symbol_to_file :
          /\ call_graph.symbol_to_file[uid] \in DOMAIN call_graph.file_to_symbols
          /\ uid \in Range(call_graph.file_to_symbols[call_graph.symbol_to_file[uid]])
    /\ \A f \in DOMAIN call_graph.file_to_symbols :
          Range(call_graph.file_to_symbols[f]) \subseteq DOMAIN call_graph.symbol_to_file

====
